---- MODULE Spec2Model ----
(***************************************************************************)
(* Compatibility scoring engine and its recomputation pipeline:            *)
(*   api/services/compatibility_queue.py    (job rows, enqueue decision)   *)
(*   api/services/compatibility_service.py  (scoring, cache, pair rows)    *)
(*   api/views.py                           (answer submission, reads)     *)
(*   api/management/commands/calculate_*.py (scheduled/batch writers)      *)
(*                                                                         *)
(* Numbers: percentages are kept in hundredths (63.25 is 6325),            *)
(* completeness ratios in thousandths (1.0 is 1000), per-question scores   *)
(* M/MAX in twentieths (2.5 is 50), so that all arithmetic is on integers. *)
(***************************************************************************)
EXTENDS Integers, Sequences, FiniteSets, TLC

\* ------------------------------------------------------------------ bounds
NumUsers == 3
NumActors == 2
MaxAnsweredCount == 25
NumQuestions == 2
MaxClock == 2
MaxAttempts == 2
MaxOtherAnswers == 10

Users == 1..NumUsers

\* the users whose requests the sequential and the job-queue specifications
\* follow; the users after them are registered, banned and make no request
Actors == 1..NumActors
Questions == 1..NumQuestions

\* ------------------------------------------------------- program constants
MIN_MATCHABLE_ANSWERS == 10
CACHE_TTL == 3600
DEFAULT_ADJUST == 5
DEFAULT_EXPONENT == 2
DEFAULT_OTA_TENTHS == 5

STATUS_PENDING == "pending"
STATUS_PROCESSING == "processing"
STATUS_COMPLETED == "completed"
STATUS_FAILED == "failed"
STATUS_CHOICES == {STATUS_PENDING, STATUS_PROCESSING, STATUS_COMPLETED, STATUS_FAILED}


\* Controls.get_current(): the singleton record with its defaults.
Controls == [ADJUST_VALUE |-> DEFAULT_ADJUST, EXPONENT |-> DEFAULT_EXPONENT,
             OTA_TENTHS |-> DEFAULT_OTA_TENTHS]

\* ------------------------------------------------------------- arithmetic
Abs(x) == IF x < 0 THEN -x ELSE x

Max2(a, b) == IF a >= b THEN a ELSE b

Min2(a, b) == IF a <= b THEN a ELSE b

RECURSIVE Pow(_, _)
Pow(b, e) == IF e = 0 THEN 1 ELSE b * Pow(b, e - 1)

\* round(n/d) to the nearest integer, ties to the even one (Python's round
\* on a value that a float holds exactly); n >= 0, d > 0.  A decimal tie
\* that a float does not hold exactly, as in round((a + b) / 2.0, 2), falls
\* to whichever side the float lies on; InitAnswer and AnswerValues are
\* chosen so that no such tie arises on any input the state machine reaches.
RoundDiv(n, d) ==
    LET q == n \div d
        r == n % d
    IN  IF 2 * r < d THEN q
        ELSE IF 2 * r > d THEN q + 1
        ELSE IF q % 2 = 0 THEN q ELSE q + 1

\* a/b <= c/d for a, c >= 0 and b, d > 0, by Euclid's algorithm, so that no
\* product leaves the integer range.
RECURSIVE LeqFrac(_, _, _, _)
LeqFrac(a, b, c, d) ==
    LET qa == a \div b
        qc == c \div d
        ra == a % b
        rc == c % d
    IN  IF qa # qc THEN qa < qc
        ELSE IF ra = 0 THEN TRUE
        ELSE IF rc = 0 THEN FALSE
        ELSE LeqFrac(d, rc, b, ra)

\* the largest n in lo..hi with (n - 1/2)^2 <= 10^8 * p/q, that is
\* round(100 * sqrt(10^4 * p/q)) for 0 <= p <= q, q > 0.
RECURSIVE SqrtSearch(_, _, _, _)
SqrtSearch(lo, hi, p, q) ==
    IF lo >= hi THEN lo
    ELSE LET mid == (lo + hi + 1) \div 2
         IN  IF LeqFrac((2 * mid - 1) * (2 * mid - 1), 400000000, p, q)
             THEN SqrtSearch(mid, hi, p, q)
             ELSE SqrtSearch(lo, mid - 1, p, q)

\* round(math.sqrt(pctA * pctB), 2) in hundredths, for pctA = 100*ma/xa and
\* pctB = 100*mb/xb.
GeoMean100(ma, xa, mb, xb) == SqrtSearch(0, 10000, ma * mb, xa * xb)

\* ---------------------------------------------------------------- scoring
\* map_importance_to_factor, doubled (0.5 is 1).
map_importance_to_factor2(importance, exponent) ==
    IF importance = 1 THEN 0
    ELSE IF importance = 2 THEN 1
    ELSE IF importance = 3 THEN 2
    ELSE IF importance \in {4, 5} THEN 2 * (1 + Pow(importance - 3, exponent))
    ELSE 2

\* calculate_question_score with direction A open only when the flag is set
calculate_question_score_flag_only(my_them, my_importance, their_me, my_me, their_them, their_importance, my_open_to_all, their_open_to_all, constants) ==
    LET adjust_value == constants.ADJUST_VALUE
        ota10 == constants.OTA_TENTHS
        exponent == constants.EXPONENT
        my_f2 == map_importance_to_factor2(my_importance, exponent)
        their_f2 == map_importance_to_factor2(their_importance, exponent)
        openA == my_open_to_all
        openB == their_open_to_all \/ their_them = 6 \/ my_me = 6
        M_A == IF openA THEN 2 * adjust_value * ota10
               ELSE Max2(0, 10 * (adjust_value - Abs(my_them - their_me)) * my_f2)
        MAX_A == IF openA THEN 20 * adjust_value ELSE 10 * adjust_value * my_f2
        M_B == IF openB THEN 2 * adjust_value * ota10
               ELSE Max2(0, 10 * (adjust_value - Abs(my_me - their_them)) * their_f2)
        MAX_B == IF openB THEN 20 * adjust_value ELSE 10 * adjust_value * their_f2
    IN  <<M_A, MAX_A, M_B, MAX_B>>

\* calculate_question_score: <<M_A, MAX_A, M_B, MAX_B>> in twentieths.
calculate_question_score(my_them, my_importance, their_me, my_me, their_them, their_importance, my_open_to_all, their_open_to_all, constants) ==
    LET adjust_value == constants.ADJUST_VALUE
        ota10 == constants.OTA_TENTHS
        exponent == constants.EXPONENT
        my_f2 == map_importance_to_factor2(my_importance, exponent)
        their_f2 == map_importance_to_factor2(their_importance, exponent)
        openA == my_open_to_all \/ my_them = 6 \/ their_me = 6
        openB == their_open_to_all \/ their_them = 6 \/ my_me = 6
        M_A == IF openA THEN 2 * adjust_value * ota10
               ELSE Max2(0, 10 * (adjust_value - Abs(my_them - their_me)) * my_f2)
        MAX_A == IF openA THEN 20 * adjust_value ELSE 10 * adjust_value * my_f2
        M_B == IF openB THEN 2 * adjust_value * ota10
               ELSE Max2(0, 10 * (adjust_value - Abs(my_me - their_them)) * their_f2)
        MAX_B == IF openB THEN 20 * adjust_value ELSE 10 * adjust_value * their_f2
    IN  <<M_A, MAX_A, M_B, MAX_B>>

\* the keys of an answer dictionary (a function on the answered questions)
Keys(amap) == DOMAIN amap

QuestionScore(a1, a2, constants) ==
    calculate_question_score(a1.looking_for_answer, a1.looking_for_importance,
                             a2.me_answer, a1.me_answer, a2.looking_for_answer,
                             a2.looking_for_importance, a1.looking_for_open_to_all,
                             a2.me_open_to_all, constants)

RECURSIVE SumScores(_, _, _, _, _)
SumScores(qs, a1_map, a2_map, constants, k) ==
    IF qs = {} THEN 0
    ELSE LET q == CHOOSE x \in qs : TRUE
         IN  QuestionScore(a1_map[q], a2_map[q], constants)[k]
             + SumScores(qs \ {q}, a1_map, a2_map, constants, k)

\* lines 149-166 on the four totals: the two percentages and their geometric
\* mean, rounded to hundredths, with the number n of mutual questions
ScoresOfTotals(n, tMA, tXA, tMB, tXB) ==
    [cwm |-> IF tXA > 0 THEN RoundDiv(10000 * tMA, tXA) ELSE 0,
     icw |-> IF tXB > 0 THEN RoundDiv(10000 * tMB, tXB) ELSE 0,
     overall |-> IF tXA > 0 /\ tXB > 0 /\ tMA > 0 /\ tMB > 0
                 THEN GeoMean100(tMA, tXA, tMB, tXB) ELSE 0,
     n |-> n]

\* lines 112-147 on the mutual questions
ScoresOfMutual(mutual, a1_map, a2_map, constants) ==
    IF mutual = {} THEN [cwm |-> 0, icw |-> 0, overall |-> 0, n |-> 0]
    ELSE ScoresOfTotals(Cardinality(mutual),
                        SumScores(mutual, a1_map, a2_map, constants, 1),
                        SumScores(mutual, a1_map, a2_map, constants, 2),
                        SumScores(mutual, a1_map, a2_map, constants, 3),
                        SumScores(mutual, a1_map, a2_map, constants, 4))

\* _compute_scores_from_answer_maps:
\* [cwm, icw, overall (hundredths), n (count)]
compute_scores_from_answer_maps(a1_map, a2_map, constants) ==
    ScoresOfMutual(Keys(a1_map) \cap Keys(a2_map), a1_map, a2_map, constants)

\* {qid: a_all[qid] for qid in qids if qid in a_all}
Restrict(a_all, qids) ==
    [q \in (DOMAIN a_all) \cap qids |-> a_all[q]]

\* a result dictionary that takes the per-user branch (lines 277-322) even
\* when neither user has a required question
ResultOfScoresRestricted(no_required, base, s1, s2, n1a, n2t, n2a, n1m) ==
    LET c1num == IF n2t > 0 THEN Min2(n1a, n2t) ELSE 0
        c1den == IF n2t > 0 THEN n2t ELSE 1
        c2num == IF n1m > 0 THEN Min2(n2a, n1m) ELSE 0
        c2den == IF n1m > 0 THEN n1m ELSE 1
    IN  [overall_compatibility |-> base.overall,
         compatible_with_me |-> base.cwm,
         im_compatible_with |-> base.icw,
         mutual_questions_count |-> base.n,
         required_overall_compatibility |-> RoundDiv(s1.overall + s2.overall, 2),
         required_compatible_with_me |-> s1.cwm,
         required_im_compatible_with |-> s2.icw,
         their_required_compatibility |-> s2.icw,
         required_mutual_questions_count |-> s1.n + s2.n,
         user1_required_mutual_count |-> s1.n,
         user2_required_mutual_count |-> s2.n,
         user1_required_completeness |-> RoundDiv(1000 * c1num, c1den),
         user2_required_completeness |-> RoundDiv(1000 * c2num, c2den),
         required_completeness_ratio |->
             RoundDiv(1000 * (c1num * c2den + c2num * c1den), 2 * c1den * c2den)]

\* lines 249-322: the result dictionary from the base scores, the scores s1
\* on user1's required questions and s2 on user2's, and the four answer
\* counts of the completeness ratios
ResultOfScores(no_required, base, s1, s2, n1a, n2t, n2a, n1m) ==
    IF no_required
    THEN [overall_compatibility |-> base.overall,
          compatible_with_me |-> base.cwm,
          im_compatible_with |-> base.icw,
          mutual_questions_count |-> base.n,
          required_overall_compatibility |-> base.overall,
          required_compatible_with_me |-> base.cwm,
          required_im_compatible_with |-> base.icw,
          their_required_compatibility |-> base.icw,
          required_mutual_questions_count |-> base.n,
          user1_required_mutual_count |-> base.n,
          user2_required_mutual_count |-> base.n,
          user1_required_completeness |-> 1000,
          user2_required_completeness |-> 1000,
          required_completeness_ratio |-> 1000]
    ELSE LET \* completeness as a fraction num/den, clamped to [0, 1]
             c1num == IF n2t > 0 THEN Min2(n1a, n2t) ELSE 0
             c1den == IF n2t > 0 THEN n2t ELSE 1
             c2num == IF n1m > 0 THEN Min2(n2a, n1m) ELSE 0
             c2den == IF n1m > 0 THEN n1m ELSE 1
         IN  [overall_compatibility |-> base.overall,
              compatible_with_me |-> base.cwm,
              im_compatible_with |-> base.icw,
              mutual_questions_count |-> base.n,
              required_overall_compatibility |-> RoundDiv(s1.overall + s2.overall, 2),
              required_compatible_with_me |-> s1.cwm,
              required_im_compatible_with |-> s2.icw,
              their_required_compatibility |-> s2.icw,
              required_mutual_questions_count |-> s1.n + s2.n,
              user1_required_mutual_count |-> s1.n,
              user2_required_mutual_count |-> s2.n,
              user1_required_completeness |-> RoundDiv(1000 * c1num, c1den),
              user2_required_completeness |-> RoundDiv(1000 * c2num, c2den),
              required_completeness_ratio |->
                  RoundDiv(1000 * (c1num * c2den + c2num * c1den), 2 * c1den * c2den)]

\* ComputeResult with the completeness denominators taken over every question
\* the other user marked required, answered by them or not
ComputeResultAllMarked(a1_all, a2_all, req1, req2, constants) ==
    ResultOfScores(req1 = {} /\ req2 = {},
                   compute_scores_from_answer_maps(a1_all, a2_all, constants),
                   compute_scores_from_answer_maps(Restrict(a1_all, req1),
                                                   Restrict(a2_all, req1), constants),
                   compute_scores_from_answer_maps(Restrict(a1_all, req2),
                                                   Restrict(a2_all, req2), constants),
                   Cardinality(Keys(Restrict(a1_all, req2))),
                   Cardinality(req2),
                   Cardinality(Keys(Restrict(a2_all, req1))),
                   Cardinality(req1))

\* The result dictionary of calculate_compatibility_between_users when it is
\* computed (lines 238-322): a1_all/a2_all are the two answer maps, req1/req2
\* the two UserRequiredQuestion sets.
ComputeResult(a1_all, a2_all, req1, req2, constants) ==
    ResultOfScores(req1 = {} /\ req2 = {},
                   compute_scores_from_answer_maps(a1_all, a2_all, constants),
                   compute_scores_from_answer_maps(Restrict(a1_all, req1),
                                                   Restrict(a2_all, req1), constants),
                   compute_scores_from_answer_maps(Restrict(a1_all, req2),
                                                   Restrict(a2_all, req2), constants),
                   Cardinality(Keys(Restrict(a1_all, req2))),
                   Cardinality(Keys(Restrict(a2_all, req2))),
                   Cardinality(Keys(Restrict(a2_all, req1))),
                   Cardinality(Keys(Restrict(a1_all, req1))))


\* ------------------------------------------------------------------ state
VARIABLES
    answers,                  \* UserAnswer rows on the tracked questions: user -> (question -> answer)
    other_answers,            \* number of UserAnswer rows of a user on further questions
    questions_answered_count, \* User.questions_answered_count
    last_answer_update,       \* Max(updated_at) over a user's answers
    required,                 \* UserRequiredQuestion: user -> set of questions
    is_banned,                \* User.is_banned
    job,                      \* CompatibilityJob rows: user -> the sequence of the user's rows
    comp,                     \* Compatibility rows: <<user1, user2>> -> row (unique_together)
    cache,                    \* django cache: sorted pair -> cached result dictionary
    now,                      \* timezone.now()
    proc,                     \* handlers in progress when requests overlap
    last_op,                  \* the last operation run: its name, arguments and result
    controls,                 \* the Controls row (id 1)
    constants_cache           \* lru_cache of get_constants: <<>> or the one dictionary held

vars == <<answers, other_answers, questions_answered_count, last_answer_update,
          required, is_banned, job, comp, cache, now, proc, last_op, controls,
          constants_cache>>

\* CompatibilityService.get_constants(): the dictionary held by lru_cache if
\* there is one, else the Controls row as it is now
get_constants == IF constants_cache = <<>> THEN controls ELSE constants_cache[1]

\* ordered pairs of distinct users: the possible (user1, user2) of a row
Pairs == {pr \in Users \X Users : pr[1] # pr[2]}

\* min(user1.id, user2.id), max(user1.id, user2.id): the cache key of a pair
CacheKey(u1, u2) == <<Min2(u1, u2), Max2(u1, u2)>>

\* user.answers.count()
AnswerCount(u) == Cardinality(DOMAIN answers[u]) + other_answers[u]

\* a function without the keys in ks
Without(f, ks) == [k \in (DOMAIN f) \ ks |-> f[k]]

\* a function with key k set to v
With(f, k, v) == [x \in (DOMAIN f) \cup {k} |-> IF x = k THEN v ELSE f[x]]

\* --------------------------------------------------------- the score cache
\* calculate_compatibility_between_users(user1, user2, user1_answers=a1,
\* user2_answers=a2) against cache c and the required sets req: the cached
\* dictionary of the pair if there is one, else the computed one.
CalcResult(c, u1, u2, a1, a2, req) ==
    IF CacheKey(u1, u2) \in DOMAIN c
    THEN c[CacheKey(u1, u2)]
    ELSE ComputeResult(a1, a2, req[u1], req[u2], get_constants)

\* the cache after that call (cache.set on a miss)
CalcCache(c, u1, u2, a1, a2, req) ==
    IF CacheKey(u1, u2) \in DOMAIN c
    THEN c
    ELSE With(c, CacheKey(u1, u2),
              ComputeResult(a1, a2, req[u1], req[u2], get_constants))

\* clear_user_compatibility_cache(user)
clear_user_compatibility_cache(c, user) ==
    Without(c, {k \in DOMAIN c : k[1] = user \/ k[2] = user})

\* ---------------------------------------------------------- the pair rows
ScoreFields == {"overall_compatibility", "compatible_with_me", "im_compatible_with",
                "mutual_questions_count", "required_overall_compatibility",
                "required_compatible_with_me", "required_im_compatible_with",
                "their_required_compatibility", "required_mutual_questions_count",
                "user1_required_completeness", "user2_required_completeness",
                "required_completeness_ratio"}

\* a row holding result dictionary d as it is (lines 509-520, 546-557)
DirectRow(d, t) ==
    [overall_compatibility |-> d.overall_compatibility,
     compatible_with_me |-> d.compatible_with_me,
     im_compatible_with |-> d.im_compatible_with,
     mutual_questions_count |-> d.mutual_questions_count,
     required_overall_compatibility |-> d.required_overall_compatibility,
     required_compatible_with_me |-> d.required_compatible_with_me,
     required_im_compatible_with |-> d.required_im_compatible_with,
     their_required_compatibility |-> d.their_required_compatibility,
     required_mutual_questions_count |-> d.required_mutual_questions_count,
     user1_required_completeness |-> d.user1_required_completeness,
     user2_required_completeness |-> d.user2_required_completeness,
     required_completeness_ratio |-> d.required_completeness_ratio,
     last_calculated |-> t]

\* a row stored in the reverse orientation, directional fields swapped
\* (lines 525-539)
ReverseRow(d, t) ==
    [overall_compatibility |-> d.overall_compatibility,
     compatible_with_me |-> d.im_compatible_with,
     im_compatible_with |-> d.compatible_with_me,
     mutual_questions_count |-> d.mutual_questions_count,
     required_overall_compatibility |-> d.required_overall_compatibility,
     required_compatible_with_me |-> d.required_im_compatible_with,
     required_im_compatible_with |-> d.required_compatible_with_me,
     their_required_compatibility |-> d.required_compatible_with_me,
     required_mutual_questions_count |-> d.required_mutual_questions_count,
     user1_required_completeness |-> d.user2_required_completeness,
     user2_required_completeness |-> d.user1_required_completeness,
     required_completeness_ratio |-> d.required_completeness_ratio,
     last_calculated |-> t]

\* the row get_compatible_users creates: the four base fields, the required
\* fields at their column defaults (lines 375-384)
BaseRow(d, t) ==
    [overall_compatibility |-> d.overall_compatibility,
     compatible_with_me |-> d.compatible_with_me,
     im_compatible_with |-> d.im_compatible_with,
     mutual_questions_count |-> d.mutual_questions_count,
     required_overall_compatibility |-> 0,
     required_compatible_with_me |-> 0,
     required_im_compatible_with |-> 0,
     their_required_compatibility |-> 0,
     required_mutual_questions_count |-> 0,
     user1_required_completeness |-> 0,
     user2_required_completeness |-> 0,
     required_completeness_ratio |-> 0,
     last_calculated |-> t]

\* a lookup that matches the stored order (a, b) only
FindRowsDirect(rows, a, b) == {k \in {<<a, b>>} : k \in DOMAIN rows}

\* Compatibility.objects.filter(Q(user1=a, user2=b) | Q(user1=b, user2=a)):
\* the keys of the rows of the pair, in either stored order
FindRows(rows, a, b) == {k \in {<<a, b>>, <<b, a>>} : k \in DOMAIN rows}

\* Compatibility.objects.filter(Q(user1=user) | Q(user2=user))
RowsTouching(rows, user) == {k \in DOMAIN rows : k[1] = user \/ k[2] = user}


\* ------------------------------------------ recalculate_all_compatibilities
\* User.objects.exclude(id=user.id).exclude(is_banned=True)
RecalcOthers(user) == {o \in Users \ {user} : ~is_banned[o]}

\* the cache after the loop's calls for every other user (lines 492-502)
RECURSIVE CacheAfterRecalc(_, _, _, _, _)
CacheAfterRecalc(c, user, others, ans, req) ==
    IF others = {} THEN c
    ELSE LET o == CHOOSE x \in others : TRUE
         IN  CacheAfterRecalc(CalcCache(c, user, o, ans[user], ans[o], req),
                              user, others \ {o}, ans, req)

\* a loop whose update branch stores the result with the directional fields
\* swapped, as the reverse branch does
RecalcPlanUpdatesSwapped(existing, c, user, ans, req, t) ==
    LET others == RecalcOthers(user)
        d(o) == CalcResult(c, user, o, ans[user], ans[o], req)
        upd == {o \in others : <<user, o>> \in existing}
        rev == {o \in others : <<user, o>> \notin existing /\ <<o, user>> \in existing}
        new == others \ (upd \cup rev)
    IN  [updates |-> [k \in {<<user, o>> : o \in upd} |-> ReverseRow(d(k[2]), t)],
         reverse_updates |-> [k \in {<<o, user>> : o \in rev} |-> ReverseRow(d(k[1]), t)],
         to_create |-> [k \in {<<user, o>> : o \in new} |-> DirectRow(d(k[2]), t)]]

\* The three lists the loop builds from existing_map (lines 479-560), as one
\* function from row key to the row to write: updates (key_direct), reverse
\* updates (key_reverse) and to_create.
RecalcPlan(existing, c, user, ans, req, t) ==
    LET others == RecalcOthers(user)
        d(o) == CalcResult(c, user, o, ans[user], ans[o], req)
        upd == {o \in others : <<user, o>> \in existing}
        rev == {o \in others : <<user, o>> \notin existing /\ <<o, user>> \in existing}
        new == others \ (upd \cup rev)
    IN  [updates |-> [k \in {<<user, o>> : o \in upd} |-> DirectRow(d(k[2]), t)],
         reverse_updates |-> [k \in {<<o, user>> : o \in rev} |-> ReverseRow(d(k[1]), t)],
         to_create |-> [k \in {<<user, o>> : o \in new} |-> DirectRow(d(k[2]), t)]]

\* bulk_update(objs, update_fields): the score fields of the rows that still
\* exist are overwritten, last_calculated is not among update_fields
BulkUpdate(rows, objs) ==
    [k \in DOMAIN rows |->
        IF k \in DOMAIN objs
        THEN [objs[k] EXCEPT !.last_calculated = rows[k].last_calculated]
        ELSE rows[k]]

\* bulk_create(objs, ignore_conflicts=True): a row whose (user1, user2) is
\* taken is dropped silently
BulkCreate(rows, objs) ==
    [k \in (DOMAIN rows) \cup (DOMAIN objs) |->
        IF k \in DOMAIN rows THEN rows[k] ELSE objs[k]]

\* lines 577-585
ApplyPlan(rows, plan) ==
    BulkCreate(BulkUpdate(BulkUpdate(rows, plan.updates), plan.reverse_updates),
               plan.to_create)

\* a full reset whose delete has no filter
AfterResetEveryRow(rows, user, use_full_reset) ==
    IF use_full_reset THEN Without(rows, DOMAIN rows) ELSE rows

\* the rows left by the optional full reset (lines 437-441)
AfterReset(rows, user, use_full_reset) ==
    IF use_full_reset THEN Without(rows, RowsTouching(rows, user)) ELSE rows

\* recalculate_all_compatibilities(user, use_full_reset) run without overlap:
\* the rows afterwards
RecalcRows(rows, c, user, use_full_reset, ans, req, t) ==
    LET kept == AfterReset(rows, user, use_full_reset)
        c1 == clear_user_compatibility_cache(c, user)
    IN  IF RecalcOthers(user) = {} THEN kept
        ELSE ApplyPlan(kept, RecalcPlan(RowsTouching(kept, user), c1, user, ans, req, t))

\* ... and the cache afterwards
RecalcCache(c, user, ans, req) ==
    CacheAfterRecalc(clear_user_compatibility_cache(c, user), user,
                     RecalcOthers(user), ans, req)


\* ------------------------------------------------------------ the job queue
\* a DateTimeField holding NULL
NullTime == 0 - 1

\* EnqueueResult(created, updated, skipped, reason); reason None is "none"
EnqueueResult(created, updated, skipped, reason) ==
    [created |-> created, updated |-> updated, skipped |-> skipped, reason |-> reason]

\* the row get_or_create inserts: defaults={'status': STATUS_PENDING}
NewJob(t) ==
    [status |-> STATUS_PENDING, attempts |-> 0, last_attempt_at |-> NullTime,
     error_message |-> "", created_at |-> t, updated_at |-> t]

\* the rows of the job table that belong to user (job maps a user to the
\* sequence of their rows)
HasJob(jobs, user) == jobs[user] # <<>>

\* CompatibilityJob.objects.get(user=user)
GetJob(jobs, user) == jobs[user][1]

\* an INSERT that no unique index guards
JobInsertUnchecked(jobs, user) == TRUE

\* INSERT of a job row: the unique index of the OneToOneField (models.py
\* lines 369-373) refuses a second row of the user with an IntegrityError
JobInsertOk(jobs, user) == jobs[user] = <<>>

JobInsert(jobs, user, row) ==
    IF JobInsertOk(jobs, user) THEN [jobs EXCEPT ![user] = Append(@, row)] ELSE jobs

\* UPDATE of the user's job row
JobUpdate(jobs, user, row) == [jobs EXCEPT ![user] = <<row>> \o Tail(@)]

\* a reset that leaves error_message as it was
EnqueueResetKeepsError(j, force, t) ==
    IF j.status # STATUS_PENDING \/ force
    THEN [j EXCEPT !.status = STATUS_PENDING, !.updated_at = t]
    ELSE [j EXCEPT !.updated_at = t]

\* a save that touches updated_at and never resets the status
EnqueueTouchOnly(j, force, t) == [j EXCEPT !.updated_at = t]

\* lines 49-59 on the row j that get_or_create found: the row saved
EnqueueExistingRow(j, force, t) ==
    IF j.status # STATUS_PENDING \/ force
    THEN [j EXCEPT !.status = STATUS_PENDING, !.error_message = "", !.updated_at = t]
    ELSE [j EXCEPT !.updated_at = t]

\* a result that reports every save as an update
EnqueueResultAlwaysUpdated(j, force) == EnqueueResult(FALSE, TRUE, FALSE, "none")

\* ... and the result returned
EnqueueExistingResult(j, force) ==
    IF j.status # STATUS_PENDING \/ force
    THEN EnqueueResult(FALSE, TRUE, FALSE, "none")
    ELSE EnqueueResult(FALSE, FALSE, FALSE, "none")

\* an early return that compares with MIN_MATCHABLE_ANSWERS - 1
EnqueueSkipsOffByOne(force, answer_count) ==
    ~force /\ answer_count < MIN_MATCHABLE_ANSWERS - 1

\* line 37: the early return
EnqueueSkips(force, answer_count) == ~force /\ answer_count < MIN_MATCHABLE_ANSWERS

\* enqueue_user_for_recalculation(user, force) run without overlap on the job
\* table jobs, for a user with answer_count answers: the table afterwards
EnqueueJobs(jobs, user, force, answer_count, t) ==
    IF EnqueueSkips(force, answer_count) THEN jobs
    ELSE IF ~HasJob(jobs, user) THEN JobInsert(jobs, user, NewJob(t))
    ELSE JobUpdate(jobs, user, EnqueueExistingRow(GetJob(jobs, user), force, t))

\* ... and the result returned
enqueue_user_for_recalculation(jobs, user, force, answer_count) ==
    IF EnqueueSkips(force, answer_count)
    THEN EnqueueResult(FALSE, FALSE, TRUE, "insufficient_answers")
    ELSE IF ~HasJob(jobs, user) THEN EnqueueResult(TRUE, FALSE, FALSE, "none")
    ELSE EnqueueExistingResult(GetJob(jobs, user), force)

\* a decision that looks at the onboarding trigger before the threshold
should_enqueue_trigger_first(is_onboarding_trigger, answered_count, created) ==
    LET match_ready == answered_count >= MIN_MATCHABLE_ANSWERS
    IN  IF ~created THEN <<match_ready, match_ready>>
        ELSE IF is_onboarding_trigger THEN <<TRUE, TRUE>>
        ELSE IF ~match_ready THEN <<FALSE, FALSE>>
        ELSE IF answered_count > MIN_MATCHABLE_ANSWERS THEN <<TRUE, FALSE>>
        ELSE <<FALSE, FALSE>>

\* should_enqueue_after_answer: <<should_enqueue, force_enqueue>>
should_enqueue_after_answer(is_onboarding_trigger, answered_count, created) ==
    LET match_ready == answered_count >= MIN_MATCHABLE_ANSWERS
    IN  IF ~created THEN <<match_ready, match_ready>>
        ELSE IF ~match_ready THEN <<FALSE, FALSE>>
        ELSE IF is_onboarding_trigger THEN <<TRUE, TRUE>>
        ELSE IF answered_count > MIN_MATCHABLE_ANSWERS THEN <<TRUE, FALSE>>
        ELSE <<FALSE, FALSE>>

\* lines 1880-1886: the job row after a successful inline recalculation:
\* save(update_fields=...) writes five fields of the instance j the handler
\* holds over the stored row
InlineCompleted(row, j, t) ==
    [row EXCEPT !.attempts = j.attempts + 1, !.status = STATUS_COMPLETED,
                !.error_message = "", !.last_attempt_at = t, !.updated_at = t]


\* ------------------------------------------- calculate_missing_compatibilities
\* User.objects.exclude(is_banned=True).filter(answers__isnull=False)
\* .distinct().order_by('id')
UsersWithAnswers(ans, other) ==
    {u \in Users : ~is_banned[u] /\ Cardinality(DOMAIN ans[u]) + other[u] > 0}

\* for i, user1 in enumerate(users): for user2 in users[i+1:]: the pairs in
\* the order the two loops visit them
RECURSIVE PairSeq(_, _, _)
PairSeq(us, i, j) ==
    IF i > NumUsers THEN <<>>
    ELSE IF j > NumUsers THEN PairSeq(us, i + 1, i + 2)
    ELSE IF i \in us /\ j \in us THEN <<(<<i, j>>)>> \o PairSeq(us, i, j + 1)
    ELSE PairSeq(us, i, j + 1)

\* existing_compatibilities.get(pair): the stored row of the sorted pair
ExistingKey(rows, a, b) == IF <<a, b>> \in DOMAIN rows THEN <<a, b>> ELSE <<b, a>>

\* lines 100-108: a stored row is stale when either user's latest answer
\* update is later than its last_calculated
Stale(row, u1, u2) ==
    \/ (last_answer_update[u1] # NullTime /\ last_answer_update[u1] > row.last_calculated)
    \/ (last_answer_update[u2] # NullTime /\ last_answer_update[u2] > row.last_calculated)

\* One pair of the loop (lines 89-148) on st = [comp, cache, created_pairs];
\* rows0 is the dictionary of rows loaded at the start of the run.
\*  - no row: the score is computed (and cached), then
\*    Compatibility.objects.create(user1, user2, **compatibility_data) is
\*    handed every key of the result, among them user1_required_mutual_count
\*    and user2_required_mutual_count.  Where the table has no such columns
\*    (extra_columns = FALSE) the TypeError is caught at line 145 and nothing
\*    is created; where it has them the row is created.
\*  - a stale row: every key is set on the loaded object as it is and the
\*    object is saved whole, with last_calculated = now.
MissingPairStep(st, rows0, u1, u2, extra_columns, t) ==
    LET k == ExistingKey(rows0, u1, u2)
        exists == FindRows(rows0, u1, u2) # {}
        d == CalcResult(st.cache, u1, u2, answers[u1], answers[u2], required)
        c1 == CalcCache(st.cache, u1, u2, answers[u1], answers[u2], required)
    IN  IF ~exists
        THEN IF extra_columns
             THEN [comp |-> With(st.comp, <<u1, u2>>, DirectRow(d, t)), cache |-> c1,
                   created_pairs |-> st.created_pairs + 1]
             ELSE [st EXCEPT !.cache = c1]
        ELSE IF ~Stale(rows0[k], u1, u2) THEN st
        ELSE [comp |-> With(st.comp, k, DirectRow(d, t)), cache |-> c1,
              created_pairs |-> st.created_pairs + 1]

\* the two loops from pair number i on: they stop at the first budget check
\* that fails (elapsed >= timeout, which happens once stop_at pairs were
\* visited; created_pairs >= max_pairs)
RECURSIVE MissingLoop(_, _, _, _, _, _, _, _)
MissingLoop(st, rows0, ps, i, max_pairs, stop_at, extra_columns, t) ==
    IF i > Len(ps) \/ i > stop_at \/ st.created_pairs >= max_pairs THEN st
    ELSE MissingLoop(MissingPairStep(st, rows0, ps[i][1], ps[i][2], extra_columns, t),
                     rows0, ps, i + 1, max_pairs, stop_at, extra_columns, t)

\* Command.handle of calculate_missing_compatibilities run without overlap
CalculateMissing(max_pairs, stop_at, extra_columns) ==
    MissingLoop([comp |-> comp, cache |-> cache, created_pairs |-> 0], comp,
                PairSeq(UsersWithAnswers(answers, other_answers), 1, 2), 1,
                max_pairs, stop_at, extra_columns, now)


\* ------------------------------------------------ calculate_all_compatibilities
\* the users queryset has no order_by: order is the sequence in which the
\* database returns the users; the pairs the loops visit in that order
RECURSIVE OrderedPairs(_, _, _, _)
OrderedPairs(order, us, i, j) ==
    IF i > Len(order) THEN <<>>
    ELSE IF j > Len(order) THEN OrderedPairs(order, us, i + 1, i + 2)
    ELSE IF order[i] \in us /\ order[j] \in us
         THEN <<(<<order[i], order[j]>>)>> \o OrderedPairs(order, us, i, j + 1)
         ELSE OrderedPairs(order, us, i, j + 1)

\* One pair of the loop (lines 62-169) on st = [comp, cache]: an existing row,
\* in either stored order, is kept unless force; it is then overwritten with
\* the result computed for (user1, user2) as it is, last_calculated not being
\* among update_fields; a missing row is created as (user1, user2).
AllPairStep(st, u1, u2, force, t) ==
    LET found == FindRows(st.comp, u1, u2)
        k == ExistingKey(st.comp, u1, u2)
        d == CalcResult(st.cache, u1, u2, answers[u1], answers[u2], required)
        c1 == CalcCache(st.cache, u1, u2, answers[u1], answers[u2], required)
    IN  IF found # {} /\ ~force THEN st
        ELSE IF found # {}
        THEN [comp |-> With(st.comp, k, DirectRow(d, st.comp[k].last_calculated)),
              cache |-> c1]
        ELSE [comp |-> With(st.comp, <<u1, u2>>, DirectRow(d, t)), cache |-> c1]

RECURSIVE AllLoop(_, _, _, _, _)
AllLoop(st, ps, i, force, t) ==
    IF i > Len(ps) THEN st
    ELSE AllLoop(AllPairStep(st, ps[i][1], ps[i][2], force, t), ps, i + 1, force, t)

\* Command.handle of calculate_all_compatibilities run without overlap
CalculateAllRows(force, order, t) ==
    AllLoop([comp |-> comp, cache |-> cache],
            OrderedPairs(order, UsersWithAnswers(answers, other_answers), 1, 2),
            1, force, t)

\* --------------------------------------------------------- get_compatible_users
\* lines 341-343: the other users the loop visits
CompatibleOthers(user) == UsersWithAnswers(answers, other_answers) \ {user}

\* lines 353-369: the dictionary read from the stored row of (user, other)
StoredView(rows, user, other) ==
    LET k == ExistingKey(rows, user, other)
        r == rows[k]
    IN  IF k[1] = user
        THEN [overall_compatibility |-> r.overall_compatibility,
              compatible_with_me |-> r.compatible_with_me,
              im_compatible_with |-> r.im_compatible_with,
              mutual_questions_count |-> r.mutual_questions_count]
        ELSE [overall_compatibility |-> r.overall_compatibility,
              compatible_with_me |-> r.im_compatible_with,
              im_compatible_with |-> r.compatible_with_me,
              mutual_questions_count |-> r.mutual_questions_count]

\* lines 371-384 for the others without a row: the rows to insert ...
GcuNew(rows, user) == {o \in CompatibleOthers(user) : FindRows(rows, user, o) = {}}

\* a get_compatible_users that stores what it returns over the rows it found
GcuRowsOverwrites(rows, c, user, t) ==
    [k \in (DOMAIN rows) \cup {<<user, o>> : o \in GcuNew(rows, user)} |->
        BaseRow(CalcResult(c, k[1], k[2], answers[k[1]], answers[k[2]], required), t)]

GcuRows(rows, c, user, t) ==
    [k \in (DOMAIN rows) \cup {<<user, o>> : o \in GcuNew(rows, user)} |->
        IF k \in DOMAIN rows THEN rows[k]
        ELSE BaseRow(CalcResult(c, user, k[2], answers[user], answers[k[2]], required), t)]

\* ... the cache afterwards ...
GcuCache(c, user, rows) == CacheAfterRecalc(c, user, GcuNew(rows, user), answers, required)

\* ... and the list returned, as a function of the other user
get_compatible_users(rows, c, user) ==
    [o \in CompatibleOthers(user) |->
        IF FindRows(rows, user, o) # {} THEN StoredView(rows, user, o)
        ELSE LET d == CalcResult(c, user, o, answers[user], answers[o], required)
             IN  [overall_compatibility |-> d.overall_compatibility,
                  compatible_with_me |-> d.compatible_with_me,
                  im_compatible_with |-> d.im_compatible_with,
                  mutual_questions_count |-> d.mutual_questions_count]]

\* ------------------------------------------------------------ read endpoints
\* a response that copies the stored columns whatever is_user1
compatibility_with_unswapped(rows, user_id, other_user_id) ==
    LET c == rows[IF <<user_id, other_user_id>> \in DOMAIN rows
                  THEN <<user_id, other_user_id>> ELSE <<other_user_id, user_id>>]
    IN  [overall_compatibility |-> c.overall_compatibility,
         compatible_with_me |-> c.compatible_with_me,
         im_compatible_with |-> c.im_compatible_with,
         mutual_questions_count |-> c.mutual_questions_count,
         required_overall_compatibility |-> c.required_overall_compatibility,
         required_compatible_with_me |-> c.required_compatible_with_me,
         required_im_compatible_with |-> c.required_im_compatible_with,
         their_required_compatibility |-> c.their_required_compatibility,
         required_mutual_questions_count |-> c.required_mutual_questions_count,
         user1_required_completeness |-> c.user1_required_completeness,
         user2_required_completeness |-> c.user2_required_completeness]

\* compatibility_with (views.py lines 975-1017): the body of the response for
\* the stored row of (user_id, other_user_id); where is_user1 is false the
\* directional fields are taken from the opposite columns
compatibility_with_body(rows, user_id, other_user_id) ==
    LET k == ExistingKey(rows, user_id, other_user_id)
        c == rows[k]
        is_user1 == k[1] = user_id
    IN  [overall_compatibility |-> c.overall_compatibility,
         compatible_with_me |->
             IF is_user1 THEN c.compatible_with_me ELSE c.im_compatible_with,
         im_compatible_with |->
             IF is_user1 THEN c.im_compatible_with ELSE c.compatible_with_me,
         mutual_questions_count |-> c.mutual_questions_count,
         required_overall_compatibility |-> c.required_overall_compatibility,
         required_compatible_with_me |->
             IF is_user1 THEN c.required_compatible_with_me
             ELSE c.required_im_compatible_with,
         required_im_compatible_with |->
             IF is_user1 THEN c.required_im_compatible_with
             ELSE c.required_compatible_with_me,
         their_required_compatibility |->
             IF is_user1 THEN c.their_required_compatibility
             ELSE c.required_compatible_with_me,
         required_mutual_questions_count |-> c.required_mutual_questions_count,
         user1_required_completeness |->
             IF is_user1 THEN c.user2_required_completeness
             ELSE c.user1_required_completeness,
         user2_required_completeness |->
             IF is_user1 THEN c.user1_required_completeness
             ELSE c.user2_required_completeness]

\* the response: the body under other_user_id, or nothing (404) without a row
compatibility_with(rows, user_id, other_user_id) ==
    [o \in {x \in {other_user_id} : FindRows(rows, user_id, x) # {}} |->
        compatibility_with_body(rows, user_id, o)]

\* compatible (views.py lines 914-940): the 'compatibility' entry of one
\* result of the listing, built from the row stored under key k
compatible_entry(rows, k, request_user) ==
    LET c == rows[k]
        is_user1 == k[1] = request_user
    IN  [overall_compatibility |-> c.overall_compatibility,
         compatible_with_me |->
             IF is_user1 THEN c.compatible_with_me ELSE c.im_compatible_with,
         im_compatible_with |->
             IF is_user1 THEN c.im_compatible_with ELSE c.compatible_with_me,
         mutual_questions_count |-> c.mutual_questions_count,
         required_overall_compatibility |-> c.required_overall_compatibility,
         required_compatible_with_me |->
             IF is_user1 THEN c.required_compatible_with_me
             ELSE c.required_im_compatible_with,
         required_im_compatible_with |->
             IF is_user1 THEN c.required_im_compatible_with
             ELSE c.required_compatible_with_me,
         their_required_compatibility |->
             IF is_user1 THEN c.their_required_compatibility
             ELSE c.required_compatible_with_me,
         required_mutual_questions_count |-> c.required_mutual_questions_count,
         user1_required_completeness |->
             IF is_user1 THEN c.user1_required_completeness
             ELSE c.user2_required_completeness,
         user2_required_completeness |->
             IF is_user1 THEN c.user2_required_completeness
             ELSE c.user1_required_completeness,
         required_completeness_ratio |-> c.required_completeness_ratio]

\* the other user of the row stored under key k
OtherUser(k, request_user) == IF k[1] = request_user THEN k[2] ELSE k[1]

\* the listing without filters, on one page: the entries by other user, the
\* rows whose other user is banned skipped (lines 917-920)
compatible(rows, request_user) ==
    LET ks == {k \in RowsTouching(rows, request_user) :
                  ~is_banned[OtherUser(k, request_user)]}
    IN  [o \in {OtherUser(k, request_user) : k \in ks} |->
            compatible_entry(rows, ExistingKey(rows, request_user, o), request_user)]

\* ===================================================== the state machine
\* ONBOARDING_TRIGGER_QUESTION_IDS: of the tracked questions, question 2
TriggerQuestions == {2} \cap Questions

\* the answers a request may carry (UserAnswer fields the scoring reads)
Answer(me, me_ota, lf, lf_ota, lf_imp) ==
    [me_answer |-> me, me_open_to_all |-> me_ota, looking_for_answer |-> lf,
     looking_for_open_to_all |-> lf_ota, looking_for_importance |-> lf_imp]

AnswerValues == {Answer(4, TRUE, 4, FALSE, 1)}

\* the answer every user has given to question 1 before the first step
InitAnswer(u) == IF u % 2 = 1 THEN Answer(2, FALSE, 1, TRUE, 4)
                 ELSE Answer(4, FALSE, 4, FALSE, 1)

\* job rows as the table may hold them: status is any of STATUS_CHOICES
InitJobRows ==
    {[status |-> st, attempts |-> IF st = STATUS_PENDING THEN 0 ELSE 1,
      last_attempt_at |-> IF st = STATUS_PENDING THEN NullTime ELSE 0,
      error_message |-> IF st = STATUS_FAILED THEN "error" ELSE "",
      created_at |-> 0, updated_at |-> 0] : st \in STATUS_CHOICES}

\* pair tables with at most one row per unordered pair
InitCompKeys ==
    {D \in SUBSET (Pairs \cap (Actors \X Actors)) : \A k \in D : <<k[2], k[1]>> \notin D}

NoRequired == [u \in Users |-> {}]

\* the operation record of a state no operation has led to
NoOp == [op |-> "none", user |-> 0, other |-> 0, force |-> FALSE, raised |-> FALSE,
         results |-> <<>>, response |-> <<>>, runs |-> 0]

Op(name, user, other, force, raised, results, response) ==
    [op |-> name, user |-> user, other |-> other, force |-> force, raised |-> raised,
     results |-> results, response |-> response, runs |-> 0]

\* a handler that has not started: pc is its position, user and force the
\* arguments of its enqueue call, inline whether it takes the inline path,
\* retry whether it is in the except branch, missed whether get_or_create
\* found no row, created whether it inserted one, held the job instance
\* cached on its user object, plan the lists recalculate_all built, started
\* the instant at which a call of recalculate_all_compatibilities on its own
\* began and reset its use_full_reset, before the rows it found when it began,
\* later_write what another handler has done for the same user since this
\* handler's inline recalculation read the answers: nothing ("none"), written
\* an answer ("written"), written an answer and made its enqueue call
\* ("enqueued")
IdleProc == [pc |-> "idle", user |-> 0, force |-> FALSE, inline |-> FALSE,
             retry |-> FALSE, missed |-> FALSE, created |-> FALSE, held |-> <<>>,
             plan |-> <<>>, started |-> <<>>, reset |-> FALSE, before |-> <<>>,
             later_write |-> "none"]

Procs == {"p1", "p2"}

\* the state before the first step: every user has answered question 1 and
\* other_answers[u] further questions; the counts, job rows, banned users
\* and pair rows are drawn from the sets given
InitWith(other_counts, job_tables, banned, comp_keys) ==
    /\ controls = Controls
    /\ constants_cache = <<Controls>>
    /\ answers = [u \in Users |-> (1 :> InitAnswer(u))]
    /\ other_answers \in other_counts
    /\ questions_answered_count = [u \in Users |-> 1 + other_answers[u]]
    /\ last_answer_update = [u \in Users |-> 0]
    /\ required = NoRequired
    /\ is_banned \in banned
    /\ job \in job_tables
    /\ \E D \in comp_keys :
          comp = [k \in D |->
                    DirectRow(ComputeResult(answers[k[1]], answers[k[2]], {}, {},
                                            get_constants), 0)]
    /\ cache = <<>>
    /\ now = 0
    /\ proc = [p \in Procs |-> IdleProc]
    /\ last_op = NoOp

\* every user one answer short of the threshold before the next new answer
AtThreshold == [u \in Users |-> MIN_MATCHABLE_ANSWERS - 1]

NoJobs == [u \in Users |-> <<>>]

\* of the users who make requests nobody is banned
NoActorBanned == [u \in Users |-> u \notin Actors]

\* of the users who make requests nobody is banned, or the last one
BannedSets == {NoActorBanned, [u \in Users |-> u >= NumActors]}

\* Init of the pair store: no job rows yet, match-ready users, any pair rows
Init == InitWith({AtThreshold}, {NoJobs}, BannedSets, InitCompKeys)

\* Init of the job queue: user 1 has any job row or none and is at the
\* threshold or below it, the others have a pending job or none
QueueInit ==
    InitWith({c \in [Users -> {MIN_MATCHABLE_ANSWERS - 2, MIN_MATCHABLE_ANSWERS - 1}] :
                 \A u \in Users \ {1} : c[u] = MIN_MATCHABLE_ANSWERS - 1},
             {j \in [Users -> {<<>>} \cup {<<r>> : r \in InitJobRows}] :
                 /\ \A u \in Actors \ {1} : j[u] # <<>> => j[u][1].status = STATUS_PENDING
                 /\ \A u \in Users \ Actors : j[u] = <<>>},
             {NoActorBanned}, {{}, {<<1, 2>>}})

\* timezone.now() while a request or a batch command runs: each of them
\* takes the next instant of the clock (a scheduled run and a read happen
\* at the current instant)
Started == now + 1

Clock == now < MaxClock /\ now' = now + 1

\* ---- UserAnswerViewSet.create (views.py lines 1823-1901), run without overlap.
\* created: the answer is new; is_trigger: the question is an onboarding
\* trigger; ans1/req1/other1: the answer tables after lines 1823-1843;
\* raises: where the inline recalculation fails ("no": nowhere, "recalc": in
\* recalculate_all_compatibilities after the cache was cleared, "save": in
\* job.save after the rows were written).
AnswerSubmitted(u, created, is_trigger, ans1, req1, other1, raises) ==
    LET actual_count == Cardinality(DOMAIN ans1[u]) + other1[u]
        qac == IF created THEN questions_answered_count[u] + 1
               ELSE IF questions_answered_count[u] = 0 THEN actual_count
               ELSE questions_answered_count[u]
        match_ready == qac >= MIN_MATCHABLE_ANSWERS
        has_existing_compat == RowsTouching(comp, u) # {}
        dec == should_enqueue_after_answer(is_trigger, qac, created)
        should_enqueue == dec[1] \/ (match_ready /\ ~has_existing_compat)
        force_enqueue == dec[2] \/ (match_ready /\ ~has_existing_compat)
        inline == should_enqueue /\ force_enqueue
        jobs1 == IF should_enqueue
                 THEN EnqueueJobs(job, u, force_enqueue, actual_count, Started) ELSE job
        r1 == IF should_enqueue
              THEN <<enqueue_user_for_recalculation(job, u, force_enqueue, actual_count)>>
              ELSE <<>>
        r2 == <<enqueue_user_for_recalculation(jobs1, u, force_enqueue, actual_count)>>
    IN  /\ Clock
        /\ inline \/ raises = "no"
        /\ (inline /\ raises = "no") => GetJob(jobs1, u).attempts < MaxAttempts
        /\ answers' = ans1
        /\ required' = req1
        /\ other_answers' = other1
        /\ questions_answered_count' = [questions_answered_count EXCEPT ![u] = qac]
        /\ last_answer_update' = [last_answer_update EXCEPT ![u] = Started]
        /\ comp' = IF inline /\ raises # "recalc"
                   THEN RecalcRows(comp, cache, u, FALSE, ans1, req1, Started) ELSE comp
        /\ cache' = IF ~inline THEN cache
                    ELSE IF raises = "recalc" THEN clear_user_compatibility_cache(cache, u)
                    ELSE RecalcCache(cache, u, ans1, req1)
        /\ job' = IF ~inline THEN jobs1
                  ELSE IF raises = "no"
                  THEN JobUpdate(jobs1, u,
                                 InlineCompleted(GetJob(jobs1, u), GetJob(jobs1, u), Started))
                  ELSE EnqueueJobs(jobs1, u, force_enqueue, actual_count, Started)
        /\ last_op' = Op("submit", u, 0, force_enqueue, raises # "no",
                         IF raises = "no" THEN r1 ELSE r1 \o r2, <<>>)
        /\ UNCHANGED <<controls, constants_cache, is_banned, proc>>

\* an answer to tracked question q, is_required_for_me as sent
SubmitAnswer(u, q, v, is_required_for_me, raises) ==
    AnswerSubmitted(u, q \notin DOMAIN answers[u], q \in TriggerQuestions,
                    [answers EXCEPT ![u] = With(@, q, v)],
                    [required EXCEPT ![u] = IF is_required_for_me THEN @ \cup {q}
                                            ELSE @ \ {q}],
                    other_answers, raises)

\* a first answer to one of the further questions
SubmitOtherAnswer(u, raises) ==
    /\ other_answers[u] < MaxOtherAnswers
    /\ AnswerSubmitted(u, TRUE, FALSE, answers, required,
                       [other_answers EXCEPT ![u] = @ + 1], raises)

\* ---- enqueue_user_for_recalculation(user, force) called on its own
EnqueueCall(u, force) ==
    /\ Clock
    /\ job' = EnqueueJobs(job, u, force, AnswerCount(u), Started)
    /\ last_op' = Op("enqueue", u, 0, force, FALSE,
                     <<enqueue_user_for_recalculation(job, u, force, AnswerCount(u))>>,
                     <<>>)
    /\ UNCHANGED <<controls, constants_cache, answers, other_answers, questions_answered_count,
                   last_answer_update, required, is_banned, comp, cache, proc>>

\* ---- calculate_missing_compatibilities, one scheduled run
NumPairs == (NumActors * (NumActors - 1)) \div 2

ScheduledTick(max_pairs, stop_at, extra_columns) ==
    LET st == CalculateMissing(max_pairs, stop_at, extra_columns)
    IN  /\ comp' = st.comp
        /\ cache' = st.cache
        /\ last_op' = [Op("tick", 0, 0, FALSE, FALSE, <<>>, <<>>) EXCEPT
                          !.runs = IF last_op.op = "tick" THEN 1 - last_op.runs ELSE 0]
        /\ UNCHANGED <<controls, constants_cache, answers, other_answers, questions_answered_count,
                       last_answer_update, required, is_banned, job, now, proc>>

\* ---- recalculate_all_compatibilities(user, use_full_reset)
\* the operation before this one was the same call of
\* recalculate_all_compatibilities
SameCallAgain(u, use_full_reset) ==
    last_op.op = "recalculate_all" /\ last_op.user = u /\ last_op.force = use_full_reset

RecalculateAll(u, use_full_reset) ==
    /\ Clock
    /\ comp' = RecalcRows(comp, cache, u, use_full_reset, answers, required, Started)
    /\ cache' = RecalcCache(cache, u, answers, required)
    /\ last_op' = [Op("recalculate_all", u, 0, use_full_reset, FALSE, <<>>, <<>>)
                      EXCEPT !.runs = IF SameCallAgain(u, use_full_reset) THEN 1 ELSE 0]
    /\ UNCHANGED <<controls, constants_cache, answers, other_answers, questions_answered_count,
                   last_answer_update, required, is_banned, job, proc>>

\* ---- get_compatible_users(user)
GetCompatibleUsers(u) ==
    /\ Clock
    /\ comp' = GcuRows(comp, cache, u, Started)
    /\ cache' = GcuCache(cache, u, comp)
    /\ last_op' = Op("get_compatible_users", u, 0, FALSE, FALSE, <<>>,
                     get_compatible_users(comp, cache, u))
    /\ UNCHANGED <<controls, constants_cache, answers, other_answers, questions_answered_count,
                   last_answer_update, required, is_banned, job, proc>>

\* ---- calculate_all_compatibilities [--force]
UserOrders == {o \in [1..NumActors -> Actors] : \A i, j \in 1..NumActors : o[i] = o[j] => i = j}

CalculateAll(force, order) ==
    LET st == CalculateAllRows(force, order, Started)
    IN  /\ Clock
        /\ comp' = st.comp
        /\ cache' = st.cache
        /\ last_op' = Op("calculate_all", order[1], 0, force, FALSE, <<>>, <<>>)
        /\ UNCHANGED <<controls, constants_cache, answers, other_answers, questions_answered_count,
                       last_answer_update, required, is_banned, job, proc>>

\* ---- GET compatibility_with?user_id=u&other_user_id=o
CompatibilityWith(u, o) ==
    /\ last_op' = Op("compatibility_with", u, o, FALSE, FALSE, <<>>,
                     compatibility_with(comp, u, o))
    /\ UNCHANGED <<controls, constants_cache, answers, other_answers, questions_answered_count,
                   last_answer_update, required, is_banned, job, comp, cache, now, proc>>

\* ---- GET compatible, as user u
Compatible(u) ==
    /\ last_op' = Op("compatible", u, 0, FALSE, FALSE, <<>>, compatible(comp, u))
    /\ UNCHANGED <<controls, constants_cache, answers, other_answers, questions_answered_count,
                   last_answer_update, required, is_banned, job, comp, cache, now, proc>>

\* ---- a cache entry reaches its timeout (cache.set(..., 3600))
CacheExpire(k) ==
    /\ k \in DOMAIN cache
    /\ cache' = Without(cache, {k})
    /\ UNCHANGED <<controls, constants_cache, answers, other_answers, questions_answered_count,
                   last_answer_update, required, is_banned, job, comp, now, proc, last_op>>

Raises == {"no", "recalc", "save"}

Tick == \E max_pairs \in 1..NumPairs, stop_at \in 0..NumPairs, extra_columns \in BOOLEAN :
            ScheduledTick(max_pairs, stop_at, extra_columns)

Next ==
    \/ \E u \in Actors, q \in Questions, v \in AnswerValues, r \in BOOLEAN, x \in Raises :
          SubmitAnswer(u, q, v, r, x)
    \/ \E u \in Actors, x \in Raises : SubmitOtherAnswer(u, x)
    \/ \E u \in Actors, force \in BOOLEAN : EnqueueCall(u, force)
    \/ Tick
    \/ \E u \in Actors, use_full_reset \in BOOLEAN : RecalculateAll(u, use_full_reset)
    \/ \E u \in Actors : GetCompatibleUsers(u)
    \/ \E force \in BOOLEAN, order \in UserOrders : CalculateAll(force, order)
    \/ \E u \in Actors : \E o \in Actors \ {u} : CompatibilityWith(u, o)
    \/ \E u \in Actors : Compatible(u)
    \/ \E k \in Pairs : CacheExpire(k)

Spec == Init /\ [][Next]_vars

\* the operations of the job queue
QueueNext ==
    \/ \E u \in Actors, q \in Questions, x \in Raises :
          SubmitAnswer(u, q, InitAnswer(u), FALSE, x)
    \/ \E u \in Actors, x \in Raises : SubmitOtherAnswer(u, x)
    \/ \E u \in Actors, force \in BOOLEAN : EnqueueCall(u, force)
    \/ Tick

QueueSpec == QueueInit /\ [][QueueNext]_vars

\* the scheduler keeps invoking calculate_missing_compatibilities
QueueFairSpec == QueueSpec /\ WF_vars(Tick)


\* ================================================== overlapping handlers
\* The same handlers, one database statement (or one transaction) per step.
Running(p) == proc[p].pc \notin {"idle", "done"}

\* the handlers once handler p has written an answer of user u and starts
\* as start: a handler whose inline recalculation for u has read the answers
\* (it is about to write its lists or to save the job) is marked
AnswerWritten(p, u, start) ==
    [q \in Procs |->
        IF q = p THEN start
        ELSE IF /\ proc[q].inline /\ ~proc[q].retry /\ proc[q].user = u
                /\ proc[q].pc \in {"write", "save"}
                /\ proc[q].later_write = "none"
        THEN [proc[q] EXCEPT !.later_write = "written"]
        ELSE proc[q]]

\* lines 1823-1871 of a submission that re-sends the user's answer to
\* question q: the answer tables are written and the decision is taken
ConcSubmitBegin(p, u, q) ==
    LET created == q \notin DOMAIN answers[u]
        ans1 == [answers EXCEPT ![u] = With(@, q, InitAnswer(u))]
        actual_count == Cardinality(DOMAIN ans1[u]) + other_answers[u]
        qac == IF created THEN questions_answered_count[u] + 1
               ELSE IF questions_answered_count[u] = 0 THEN actual_count
               ELSE questions_answered_count[u]
        match_ready == qac >= MIN_MATCHABLE_ANSWERS
        has_existing_compat == RowsTouching(comp, u) # {}
        dec == should_enqueue_after_answer(q \in TriggerQuestions, qac, created)
        should_enqueue == dec[1] \/ (match_ready /\ ~has_existing_compat)
        force_enqueue == dec[2] \/ (match_ready /\ ~has_existing_compat)
    IN  /\ ~Running(p)
        /\ Clock
        /\ answers' = ans1
        /\ questions_answered_count' = [questions_answered_count EXCEPT ![u] = qac]
        /\ last_answer_update' = [last_answer_update EXCEPT ![u] = Started]
        /\ proc' = AnswerWritten(p, u,
                       [IdleProc EXCEPT !.pc = IF should_enqueue THEN "enqueue" ELSE "done",
                                        !.user = u, !.force = force_enqueue,
                                        !.inline = should_enqueue /\ force_enqueue])
        /\ last_op' = Op("submit", u, 0, force_enqueue, FALSE, <<>>, <<>>)
        /\ UNCHANGED <<controls, constants_cache, other_answers, required, is_banned, job, comp, cache>>

\* enqueue_user_for_recalculation(user, force) called on its own: line 35-38
ConcEnqueueBegin(p, u, force) ==
    /\ ~Running(p)
    /\ Clock
    /\ proc' = [proc EXCEPT ![p] =
                   [IdleProc EXCEPT !.pc = IF EnqueueSkips(force, AnswerCount(u))
                                           THEN "done" ELSE "enqueue",
                                    !.user = u, !.force = force]]
    /\ last_op' = Op("enqueue", u, 0, force, FALSE, <<>>, <<>>)
    /\ UNCHANGED <<controls, constants_cache, answers, other_answers, questions_answered_count,
                   last_answer_update, required, is_banned, job, comp, cache>>

\* where a handler goes once its enqueue call has returned
AfterEnqueue(pr) == IF pr.inline /\ ~pr.retry THEN "recalc" ELSE "done"

\* the handlers once the enqueue call that follows the answer write of
\* handler p has returned: p moves on (with the changes of after), and a
\* handler that had read the answers before that write is marked
EnqueueReturned(p, after) ==
    [q \in Procs |->
        IF q = p THEN after
        ELSE IF /\ proc[p].inline /\ ~proc[p].retry
                /\ proc[q].user = proc[p].user
                /\ proc[q].later_write = "written"
        THEN [proc[q] EXCEPT !.later_write = "enqueued"]
        ELSE proc[q]]

\* lines 40-59 with a row found by get_or_create: the row is locked
\* (select_for_update) and saved inside the transaction
EnqFound(p) ==
    LET pr == proc[p]
    IN  /\ pr.pc \in {"enqueue", "create"}
        /\ HasJob(job, pr.user)
        /\ job' = JobUpdate(job, pr.user,
                            EnqueueExistingRow(GetJob(job, pr.user), pr.force, now))
        /\ proc' = EnqueueReturned(p, [pr EXCEPT !.pc = AfterEnqueue(pr)])
        /\ UNCHANGED <<controls, constants_cache, answers, other_answers, questions_answered_count,
                       last_answer_update, required, is_banned, comp, cache, now, last_op>>

\* get_or_create's SELECT finds no row
EnqMiss(p) ==
    LET pr == proc[p]
    IN  /\ pr.pc = "enqueue"
        /\ ~HasJob(job, pr.user)
        /\ proc' = [proc EXCEPT ![p].pc = "create", ![p].missed = TRUE]
        /\ UNCHANGED <<controls, constants_cache, answers, other_answers, questions_answered_count,
                       last_answer_update, required, is_banned, job, comp, cache, now,
                       last_op>>

\* get_or_create's INSERT succeeds: the new instance is cached on the
\* handler's user object.  (Where the unique index refuses it, get_or_create
\* reads the row again: EnqFound.)
EnqCreate(p) ==
    LET pr == proc[p]
    IN  /\ pr.pc = "create"
        /\ JobInsertOk(job, pr.user)
        /\ job' = JobInsert(job, pr.user, NewJob(now))
        /\ proc' = EnqueueReturned(p, [pr EXCEPT !.pc = AfterEnqueue(pr),
                                                  !.created = TRUE,
                                                  !.held = <<NewJob(now)>>])
        /\ UNCHANGED <<controls, constants_cache, answers, other_answers, questions_answered_count,
                       last_answer_update, required, is_banned, comp, cache, now, last_op>>

\* recalculate_all_compatibilities(u, use_full_reset) called on its own
ConcRecalcBegin(p, u, use_full_reset) ==
    /\ proc[p].pc = "idle"
    /\ proc' = [proc EXCEPT ![p] = [IdleProc EXCEPT !.pc = "recalc", !.user = u,
                                                    !.started = <<now>>,
                                                    !.reset = use_full_reset,
                                                    !.before = <<comp>>]]
    /\ last_op' = Op("recalculate_all", u, 0, use_full_reset, FALSE, <<>>, <<>>)
    /\ UNCHANGED <<controls, constants_cache, answers, other_answers, questions_answered_count,
                   last_answer_update, required, is_banned, job, comp, cache, now>>

\* line 434: the cache entries of the user's pairs are cleared
RecalcBegin(p) ==
    LET pr == proc[p]
    IN  /\ pr.pc = "recalc"
        /\ cache' = clear_user_compatibility_cache(cache, pr.user)
        /\ proc' = [proc EXCEPT ![p].pc = IF pr.reset THEN "delete" ELSE "loop"]
        /\ UNCHANGED <<controls, constants_cache, answers, other_answers, questions_answered_count,
                       last_answer_update, required, is_banned, job, comp, now, last_op>>

\* lines 437-441: with use_full_reset the rows touching the user are deleted
RecalcDelete(p) ==
    LET pr == proc[p]
    IN  /\ pr.pc = "delete"
        /\ comp' = AfterReset(comp, pr.user, TRUE)
        /\ proc' = [proc EXCEPT ![p].pc = "loop"]
        /\ UNCHANGED <<controls, constants_cache, answers, other_answers, questions_answered_count,
                       last_answer_update, required, is_banned, job, cache, now, last_op>>

\* where recalculate_all_compatibilities returns to: the inline path goes on
\* to save the job, a call on its own is done
AfterRecalc(pr) == IF pr.inline THEN "save" ELSE "done"

\* where an exception of the loop goes: the inline path catches it (lines
\* 1888-1893 of views.py), a call on its own ends with it
AfterRaise(pr) == IF pr.inline THEN "except" ELSE "raised"

\* no pair of the loop raises
NoUser == 0

\* lines 444-560: the other users, the answers and the existing rows are
\* read and the loop builds the three lists, each score taken from the cache
\* as it is now or computed and cached. bad: the other user whose score
\* computation raises, visited: the others the loop reached before it; the
\* exception leaves the loop and the function (there is no try in it), the
\* lists built so far being dropped
RecalcLoop(p, bad, visited) ==
    LET pr == proc[p]
        others == RecalcOthers(pr.user)
    IN  /\ pr.pc = "loop"
        /\ IF bad = NoUser THEN visited = others
           ELSE bad \in others /\ visited \subseteq others \ {bad}
        /\ cache' = CacheAfterRecalc(cache, pr.user, visited, answers, required)
        /\ proc' = [proc EXCEPT
                       ![p].pc = IF bad # NoUser THEN AfterRaise(pr)
                                 ELSE IF others = {} THEN AfterRecalc(pr)
                                 ELSE "write",
                       ![p].plan = IF bad # NoUser \/ others = {} THEN <<>>
                                   ELSE <<RecalcPlan(RowsTouching(comp, pr.user), cache,
                                                     pr.user, answers, required, now)>>]
        /\ UNCHANGED <<controls, constants_cache, answers, other_answers, questions_answered_count,
                       last_answer_update, required, is_banned, job, comp, now, last_op>>

\* lines 577-585: the three lists are written
RecalcWrite(p) ==
    LET pr == proc[p]
    IN  /\ pr.pc = "write"
        /\ comp' = ApplyPlan(comp, pr.plan[1])
        /\ proc' = [proc EXCEPT ![p].pc = AfterRecalc(pr), ![p].plan = <<>>]
        /\ UNCHANGED <<controls, constants_cache, answers, other_answers, questions_answered_count,
                       last_answer_update, required, is_banned, job, cache, now, last_op>>

\* getattr(user, 'compatibility_job', None): the instance cached on the user
\* object, else the row as it is now
HeldJob(pr) == IF pr.held # <<>> THEN pr.held[1] ELSE GetJob(job, pr.user)

\* views.py lines 1880-1886; raises: job.save fails
JobSave(p, raises) ==
    LET pr == proc[p]
    IN  /\ pr.pc = "save"
        /\ raises \/ HeldJob(pr).attempts < MaxAttempts
        /\ job' = IF raises THEN job
                  ELSE JobUpdate(job, pr.user,
                                 InlineCompleted(GetJob(job, pr.user), HeldJob(pr), now))
        /\ proc' = [proc EXCEPT ![p].pc = IF raises THEN "except" ELSE "done"]
        /\ UNCHANGED <<controls, constants_cache, answers, other_answers, questions_answered_count,
                       last_answer_update, required, is_banned, comp, cache, now, last_op>>

\* views.py lines 1888-1897: the except branch enqueues again
Except(p) ==
    /\ proc[p].pc = "except"
    /\ proc' = [proc EXCEPT ![p].pc = "enqueue", ![p].retry = TRUE, ![p].plan = <<>>]
    /\ UNCHANGED <<controls, constants_cache, answers, other_answers, questions_answered_count,
                   last_answer_update, required, is_banned, job, comp, cache, now, last_op>>

ConcNext ==
    \/ \E p \in Procs, u \in Actors, q \in Questions : ConcSubmitBegin(p, u, q)
    \/ \E p \in Procs, u \in Actors, force \in BOOLEAN : ConcEnqueueBegin(p, u, force)
    \/ \E p \in Procs : EnqFound(p)
    \/ \E p \in Procs : EnqMiss(p)
    \/ \E p \in Procs : EnqCreate(p)
    \/ \E p \in Procs : RecalcBegin(p)
    \/ \E p \in Procs, bad \in {NoUser} \cup Users, visited \in SUBSET Users :
          RecalcLoop(p, bad, visited)
    \/ \E p \in Procs : RecalcWrite(p)
    \/ \E p \in Procs, raises \in BOOLEAN : JobSave(p, raises)
    \/ \E p \in Procs : Except(p)

\* Init of the overlapping handlers: user 1 has any job row or none, the
\* others have none; pair rows as in QueueInit
ConcInit ==
    InitWith({AtThreshold},
             {j \in [Users -> {<<>>} \cup {<<r>> : r \in InitJobRows}] :
                 \A u \in Users \ {1} : j[u] = <<>>},
             {NoActorBanned}, {{}, {<<1, 2>>}})

SpecConc == ConcInit /\ [][ConcNext]_vars


\* ================================================= the enqueue decision
\* should_enqueue_after_answer on its own, for every argument.

\* the call with its arguments and its result
Decision(is_onboarding_trigger, answered_count, created) ==
    LET dec == should_enqueue_after_answer(is_onboarding_trigger, answered_count, created)
    IN  [is_onboarding_trigger |-> is_onboarding_trigger,
         answered_count |-> answered_count, created |-> created,
         should_enqueue |-> dec[1], force_enqueue |-> dec[2]]

Decide(is_onboarding_trigger, answered_count, created) ==
    /\ last_op' = Op("should_enqueue", 0, 0, FALSE, FALSE, <<>>,
                     <<Decision(is_onboarding_trigger, answered_count, created)>>)
    /\ UNCHANGED <<controls, constants_cache, answers, other_answers,
                   questions_answered_count, last_answer_update, required, is_banned,
                   job, comp, cache, now, proc>>

DecisionNext ==
    \E is_onboarding_trigger \in BOOLEAN, answered_count \in 0..MaxAnsweredCount,
       created \in BOOLEAN : Decide(is_onboarding_trigger, answered_count, created)

DecisionSpec == Init /\ [][DecisionNext]_vars


\* ===================================================== the score function
\* The computation of calculate_compatibility_between_users on its own, for
\* every pair of answer sets and required sets.

\* the answers a user may have given to a question
SampleAnswers == {InitAnswer(u) : u \in Users} \cup AnswerValues

\* the answer sets of a user: any of the tracked questions answered, or none
AnswerMaps == UNION {[D -> SampleAnswers] : D \in SUBSET Questions}

\* lines 238-322 for the answer sets a1, a2 and the required sets req1, req2;
\* the computation keeps nothing, so one call per behaviour is followed
Score(a1, a2, req1, req2) ==
    /\ last_op = NoOp
    /\ last_op' = Op("score", 0, 0, FALSE, FALSE, <<>>,
                     <<[a1 |-> a1, a2 |-> a2, req1 |-> req1, req2 |-> req2,
                        result |-> ComputeResult(a1, a2, req1, req2, get_constants)]>>)
    /\ UNCHANGED <<controls, constants_cache, answers, other_answers,
                   questions_answered_count, last_answer_update, required, is_banned,
                   job, comp, cache, now, proc>>

ScoreNext ==
    \E a1 \in AnswerMaps, a2 \in AnswerMaps, req1 \in SUBSET Questions,
       req2 \in SUBSET Questions : Score(a1, a2, req1, req2)

ScoreSpec == Init /\ [][ScoreNext]_vars


\* ==================================================== the Controls record
\* Score requests while the Controls row is updated.

\* the rows a Controls update may store: the defaults, or ota raised to 1.0
ControlsValues == {Controls, [Controls EXCEPT !.OTA_TENTHS = 10]}

\* ControlsViewSet.update: the serializer saves the row; nothing else is
\* called
ControlsUpdate(v) ==
    /\ controls' = v
    /\ last_op' = Op("controls_update", 0, 0, FALSE, FALSE, <<>>, <<>>)
    /\ UNCHANGED <<constants_cache, answers, other_answers, questions_answered_count,
                   last_answer_update, required, is_banned, job, comp, cache, now, proc>>

\* lines 195-196: the two flags together are refused
ScoreRequestRejected(required_only, exclude_required) == required_only /\ exclude_required

\* the cache after a call that consults it before it looks at the flags
ScoreRequestCacheFirst(c, u1, u2, required_only, exclude_required) ==
    CalcCache(c, u1, u2, answers[u1], answers[u2], required)

\* the cache after calculate_compatibility_between_users(u1, u2, flags)
ScoreRequestCache(c, u1, u2, required_only, exclude_required) ==
    IF ScoreRequestRejected(required_only, exclude_required) THEN c
    ELSE CalcCache(c, u1, u2, answers[u1], answers[u2], required)

\* calculate_compatibility_between_users(u1, u2, required_only,
\* exclude_required) called on its own, the answers fetched by the call. A
\* call with one flag alone filters on Question.is_required_for_match and
\* uses a cache key of its own; such calls are not followed.
ScoreRequest(u1, u2, required_only, exclude_required) ==
    LET rejected == ScoreRequestRejected(required_only, exclude_required)
        hit == CacheKey(u1, u2) \in DOMAIN cache
    IN  /\ required_only = exclude_required
        /\ cache' = ScoreRequestCache(cache, u1, u2, required_only, exclude_required)
        /\ constants_cache' = IF rejected \/ hit THEN constants_cache ELSE <<get_constants>>
        /\ last_op' = Op("calculate", u1, u2, FALSE, rejected, <<>>,
                         IF rejected THEN <<>>
                         ELSE <<CalcResult(cache, u1, u2, answers[u1], answers[u2],
                                           required)>>)
        /\ UNCHANGED <<controls, answers, other_answers, questions_answered_count,
                       last_answer_update, required, is_banned, job, comp, now, proc>>

ControlsNext ==
    \/ \E v \in ControlsValues : ControlsUpdate(v)
    \/ \E pr \in Pairs, flags \in BOOLEAN : ScoreRequest(pr[1], pr[2], flags, flags)
    \/ \E k \in Pairs : CacheExpire(k)

\* job rows and pair rows as in QueueInit, the constants already held by the
\* process
ControlsSpec == QueueInit /\ [][ControlsNext]_vars


\* ============================================ overlapping recalculations
\* recalculate_all_compatibilities called on its own, by at most one call per
\* handler, one database statement per step; nobody is banned and every user
\* has answers.
BatchNext ==
    \/ \E p \in Procs, u \in Users, use_full_reset \in BOOLEAN :
          ConcRecalcBegin(p, u, use_full_reset)
    \/ \E p \in Procs : RecalcBegin(p)
    \/ \E p \in Procs : RecalcDelete(p)
    \/ \E p \in Procs, bad \in {NoUser} \cup Users, visited \in SUBSET Users :
          RecalcLoop(p, bad, visited)
    \/ \E p \in Procs : RecalcWrite(p)

\* pair tables with at most one row per unordered pair of any users
BatchCompKeys == {D \in SUBSET Pairs : \A k \in D : <<k[2], k[1]>> \notin D}

BatchInit ==
    InitWith({AtThreshold}, {NoJobs}, {[u \in Users |-> FALSE]}, BatchCompKeys)

BatchSpec == BatchInit /\ [][BatchNext]_vars


\* =============================================================== properties
\* the status of the user's job, "none" without a row
StatusOf(jobs, u) == IF HasJob(jobs, u) THEN GetJob(jobs, u).status ELSE "none"

PendingUsers(jobs) == {u \in Users : StatusOf(jobs, u) = STATUS_PENDING}

\* the step is a call enqueue_user_for_recalculation(u, force) on its own
EnqueueStep(u) == EnqueueCall(u, TRUE) \/ EnqueueCall(u, FALSE)

\* C1, as claimed: a call of enqueue_user_for_recalculation that is not
\* skipped leaves the user with a Pending job; a forced call is never
\* skipped; and whenever such a call was forced or found a non-Pending job
\* it clears error_message and returns updated = true.
C1_AsClaimed ==
    [][\A u \in Users : EnqueueStep(u) =>
          LET r == last_op'.results[1]
              force == last_op'.force
          IN  /\ ~r.skipped => StatusOf(job', u) = STATUS_PENDING
              /\ force => ~r.skipped
              /\ (~r.skipped /\
                    (force \/ StatusOf(job, u) \notin {"none", STATUS_PENDING})) =>
                    /\ GetJob(job', u).error_message = ""
                    /\ r.updated]_vars

\* C1, amended: a call of enqueue_user_for_recalculation that is not skipped
\* leaves the user with a Pending job; a forced call is never skipped; a call
\* that finds no row creates one and returns created = true, updated = false,
\* forced or not; a call that is not skipped, finds a row and is forced or
\* finds it non-Pending clears error_message and returns updated = true.
C1_EnqueueLeavesPending ==
    [][\A u \in Users : EnqueueStep(u) =>
          LET r == last_op'.results[1]
              force == last_op'.force
          IN  /\ ~r.skipped => StatusOf(job', u) = STATUS_PENDING
              /\ force => ~r.skipped
              /\ (~r.skipped /\ ~HasJob(job, u)) =>
                    /\ r.created /\ ~r.updated
                    /\ GetJob(job', u).error_message = ""
              /\ (~r.skipped /\ HasJob(job, u) /\
                    (force \/ StatusOf(job, u) # STATUS_PENDING)) =>
                    /\ GetJob(job', u).error_message = ""
                    /\ r.updated /\ ~r.created]_vars

\* a forced call for a user below the threshold has just reset a row that
\* was there before (its attempt count shows it): it is Pending, its error
\* message cleared
C1_Witness ==
    /\ last_op.op = "enqueue" /\ last_op.force
    /\ last_op.results[1].updated
    /\ StatusOf(job, last_op.user) = STATUS_PENDING
    /\ GetJob(job, last_op.user).attempts > 0
    /\ GetJob(job, last_op.user).error_message = ""
    /\ AnswerCount(last_op.user) < MIN_MATCHABLE_ANSWERS

\* C2: an unforced call of enqueue_user_for_recalculation for a user with
\* fewer than 10 answers returns skipped with reason insufficient_answers
\* and changes nothing: no job row is created and an existing row keeps
\* every field.
C2_SkippedChangesNothing ==
    [][\A u \in Users :
          (EnqueueCall(u, FALSE) /\ AnswerCount(u) < MIN_MATCHABLE_ANSWERS) =>
             /\ last_op'.results[1] =
                   EnqueueResult(FALSE, FALSE, TRUE, "insufficient_answers")
             /\ job' = job]_vars

\* an unforced call was skipped for a user one answer short whose failed job
\* row is still as it was
C2_Witness ==
    /\ last_op.op = "enqueue" /\ ~last_op.force
    /\ last_op.results[1].skipped
    /\ AnswerCount(last_op.user) = MIN_MATCHABLE_ANSWERS - 1
    /\ StatusOf(job, last_op.user) = STATUS_FAILED
    /\ GetJob(job, last_op.user).error_message # ""

\* the step is part of an enqueue call of a handler working for user u
EnqueueWrites(u) ==
    \E p \in Procs : /\ proc[p].pc \in {"enqueue", "create"}
                     /\ proc[p].user = u
                     /\ proc'[p].pc # proc[p].pc

\* C3: every change of a job's status is Pending to Processing, Processing
\* to Completed, Processing to Failed, or a reset to Pending made by an
\* enqueue call; so no job goes from Pending to Completed directly and only
\* an enqueue call moves a job out of Failed.
C3_StatusChanges ==
    [][\A u \in Users :
          (HasJob(job, u) /\ StatusOf(job', u) # StatusOf(job, u)) =>
             \/ <<StatusOf(job, u), StatusOf(job', u)>> \in
                   {<<STATUS_PENDING, STATUS_PROCESSING>>,
                    <<STATUS_PROCESSING, STATUS_COMPLETED>>,
                    <<STATUS_PROCESSING, STATUS_FAILED>>}
             \/ (StatusOf(job', u) = STATUS_PENDING /\ EnqueueWrites(u))]_vars

\* C4: at most one job row per user in every state, also while enqueue calls
\* for the same user overlap; a call whose lookup found no row ends with the
\* user's one row in place, whether its own insert or the other's won.
C4_OneJobPerUser ==
    /\ \A u \in Users : Len(job[u]) <= 1
    /\ \A p \in Procs :
          (proc[p].missed /\ proc[p].pc \notin {"enqueue", "create"}) =>
             Len(job[proc[p].user]) = 1

\* two handlers of the same user both found no row; one inserted it, the
\* other was refused by the unique index, read the row and went on
C4_Witness ==
    \E p, q \in Procs :
        /\ p # q
        /\ proc[p].user = proc[q].user
        /\ proc[p].missed /\ proc[q].missed
        /\ proc[p].created /\ ~proc[q].created
        /\ proc[p].pc \notin {"enqueue", "create"}
        /\ proc[q].pc \notin {"enqueue", "create"}

\* C5: while the scheduled runs keep coming, every Pending job eventually
\* is Completed or Failed.
C5_PendingJobsDrain ==
    \A u \in Users :
        (StatusOf(job, u) = STATUS_PENDING)
            ~> (StatusOf(job, u) \in {STATUS_COMPLETED, STATUS_FAILED})

\* C6: with N pending jobs, an item budget K < N and no time limit, one
\* scheduled run moves exactly K jobs out of Pending.
C6_TickTakesItsBudget ==
    [][\A K \in 1..NumPairs : \A extra_columns \in BOOLEAN :
          (/\ ScheduledTick(K, NumPairs, extra_columns)
           /\ Cardinality(PendingUsers(job)) > K) =>
             Cardinality(PendingUsers(job')) = Cardinality(PendingUsers(job)) - K]_vars

\* C7: when the recalculation run for a job raises, the job ends Failed with
\* the error recorded on its row.
C7_FailureRecorded ==
    (last_op.op = "submit" /\ last_op.raised) =>
        /\ StatusOf(job, last_op.user) = STATUS_FAILED
        /\ GetJob(job, last_op.user).error_message # ""

\* a handler on the inline path is between the start of
\* recalculate_all_compatibilities and the end of its writes
Recalculating(p) == proc[p].inline /\ proc[p].pc \in {"recalc", "loop", "write"}

\* C8: no two recalculations are in progress for the same user at once.
C8_OneRecalculationPerUser ==
    \A p, q \in Procs :
        (p # q /\ Recalculating(p) /\ Recalculating(q)) => proc[p].user # proc[q].user

\* the stored rows of the unordered pair {a, b}, whichever way round
RowsOfPair(a, b) == {k \in DOMAIN comp : k = <<a, b>> \/ k = <<b, a>>}

\* the pairs the last operation computed and stored, if it was a writer
\* whose every computed pair is stored
PairsStoredBy(op) ==
    IF op.op = "recalculate_all" THEN {<<op.user, o>> : o \in RecalcOthers(op.user)}
    ELSE IF op.op = "get_compatible_users"
    THEN {<<op.user, o>> : o \in CompatibleOthers(op.user)}
    ELSE IF op.op = "calculate_all"
    THEN {pr \in Pairs : /\ pr[1] \in UsersWithAnswers(answers, other_answers)
                         /\ pr[2] \in UsersWithAnswers(answers, other_answers)}
    ELSE {}

\* C9: after any sequence of non-overlapping writers (answer submissions
\* with their inline recalculation, recalculate_all_compatibilities with or
\* without full reset, get_compatible_users, calculate_all_compatibilities,
\* calculate_missing_compatibilities) no unordered pair has more than one
\* row, and every pair the last writer computed and stored has exactly one.
C9_OneRowPerPair ==
    /\ \A pr \in Pairs : Cardinality(RowsOfPair(pr[1], pr[2])) <= 1
    /\ \A pr \in PairsStoredBy(last_op) : Cardinality(RowsOfPair(pr[1], pr[2])) = 1

\* a writer has just run for a user whose pair is stored the other way
\* round, after an earlier writer had touched the table
C9_Witness ==
    /\ last_op.op \in {"recalculate_all", "get_compatible_users", "calculate_all"}
    /\ now = MaxClock
    /\ \E o \in Users \ {last_op.user} :
          /\ <<o, last_op.user>> \in DOMAIN comp
          /\ <<last_op.user, o>> \notin DOMAIN comp

\* the six directional values of one read as A against the same read as B
Mirrored(asA, asB) ==
    /\ asA.compatible_with_me = asB.im_compatible_with
    /\ asA.im_compatible_with = asB.compatible_with_me
    /\ asA.required_compatible_with_me = asB.required_im_compatible_with
    /\ asA.required_im_compatible_with = asB.required_compatible_with_me
    /\ asA.user1_required_completeness = asB.user2_required_completeness
    /\ asA.user2_required_completeness = asB.user1_required_completeness

\* C10: for every stored pair, reading it as A gives compatible_with_me
\* equal to the im_compatible_with read as B and the other way round, and
\* the same holds for the required pair and for the two completeness values,
\* on compatibility_with and (where the listing shows the pair, that is when
\* neither user is banned) on the compatible listing; on
\* get_compatible_users it holds for the two base values it returns.
C10_ReadsMirror ==
    \A pr \in Pairs :
        RowsOfPair(pr[1], pr[2]) # {} =>
            /\ Mirrored(compatibility_with(comp, pr[1], pr[2])[pr[2]],
                        compatibility_with(comp, pr[2], pr[1])[pr[1]])
            /\ (~is_banned[pr[1]] /\ ~is_banned[pr[2]]) =>
                  Mirrored(compatible(comp, pr[1])[pr[2]],
                           compatible(comp, pr[2])[pr[1]])
            /\ LET asA == StoredView(comp, pr[1], pr[2])
                   asB == StoredView(comp, pr[2], pr[1])
               IN  /\ asA.compatible_with_me = asB.im_compatible_with
                   /\ asA.im_compatible_with = asB.compatible_with_me

\* compatibility_with has just answered for a user stored as user2 of a row
\* whose directional values all differ
C10_Witness ==
    /\ last_op.op = "compatibility_with"
    /\ <<last_op.other, last_op.user>> \in DOMAIN comp
    /\ LET c == comp[<<last_op.other, last_op.user>>]
           r == last_op.response[last_op.other]
       IN  /\ c.compatible_with_me # c.im_compatible_with
           /\ c.required_compatible_with_me # c.required_im_compatible_with
           /\ c.user1_required_completeness # c.user2_required_completeness
           /\ r.compatible_with_me = c.im_compatible_with

\* the values a computation from the stored answers and required sets, with
\* no cache, gives a row stored as k = (user1, user2)
FreshRow(k) ==
    DirectRow(ComputeResult(answers[k[1]], answers[k[2]], required[k[1]], required[k[2]],
                            get_constants), 0)

\* row r holds the score fields of row f
SameScores(r, f) == \A x \in ScoreFields : r[x] = f[x]

\* handler p has finished recalculate_all_compatibilities(u, merge)
MergeDone(p, u) == proc[p].pc = "done" /\ proc[p].user = u /\ ~proc[p].reset

\* C11: once recalculate_all_compatibilities(A, merge) and
\* recalculate_all_compatibilities(B, merge) have both finished, in either
\* order or interleaved, answers and required sets being unchanged, every
\* row of the pair A, B holds the values of a fresh computation oriented to
\* its user1.
C11_BothRecalculatedFresh ==
    \A a \in Users : \A b \in Users \ {a} :
        (MergeDone("p1", a) /\ MergeDone("p2", b)) =>
            /\ RowsOfPair(a, b) # {}
            /\ \A k \in RowsOfPair(a, b) : SameScores(comp[k], FreshRow(k))

\* the keys and the score fields of every row are the same in both tables
SameRows(r1, r2) ==
    /\ DOMAIN r1 = DOMAIN r2
    /\ \A k \in DOMAIN r1 : SameScores(r1[k], r2[k])

\* C12: a merge-mode recalculation of a user that directly follows a
\* merge-mode recalculation of the same user, nothing else having happened
\* in between, leaves the set of rows, their (user1, user2) and every score
\* field as the first run left them.
C12_SecondMergeRunChangesNothing ==
    [][\A u \in Users :
          (SameCallAgain(u, FALSE) /\ RecalculateAll(u, FALSE)) => SameRows(comp', comp)]_vars

\* a merge-mode recalculation has run twice for a user who has a row stored
\* with the user as user2 and whose two directional values differ
C12_Witness ==
    /\ last_op.op = "recalculate_all"
    /\ ~last_op.force
    /\ last_op.runs = 1
    /\ \E o \in Users \ {last_op.user} :
          /\ <<o, last_op.user>> \in DOMAIN comp
          /\ comp[<<o, last_op.user>>].last_calculated = 0
          /\ comp[<<o, last_op.user>>].compatible_with_me
                 # comp[<<o, last_op.user>>].im_compatible_with

\* the other users for whom the lists of a loop hold a row
PlanOthers(plan, user) ==
    {o \in Users \ {user} :
        \/ <<user, o>> \in DOMAIN plan.updates \cup DOMAIN plan.to_create
        \/ <<o, user>> \in DOMAIN plan.reverse_updates}

\* C13: when the score computation for one candidate raises in the loop of
\* recalculate_all_compatibilities(user), the call goes on to its writes
\* with a row for every other candidate: the exception neither ends the
\* call nor drops the other pairs.
C13_RaisingPairIsSkipped ==
    [][\A p \in Procs : \A bad \in Users : \A visited \in SUBSET Users :
          RecalcLoop(p, bad, visited) =>
              /\ proc'[p].pc = "write"
              /\ proc'[p].plan # <<>>
              /\ PlanOthers(proc'[p].plan[1], proc[p].user)
                     = RecalcOthers(proc[p].user) \ {bad}]_vars

\* row key k has user in one of its two slots
Touches(k, user) == k[1] = user \/ k[2] = user

\* handler p has run recalculate_all_compatibilities to its end while no
\* other handler ran
RanAlone(p) ==
    /\ proc[p].pc = "done"
    /\ proc[p].before # <<>>
    /\ \A q \in Procs \ {p} : proc[q].pc = "idle"

\* what a call for user that found the table old and left it new may have
\* done in merge mode: no key is gone, a row that does not touch user is as
\* it was, a row that touches user differs in score fields at most, and a
\* new key touches user and had no row in either order
MergeFrame(old, new, user) ==
    /\ DOMAIN old \subseteq DOMAIN new
    /\ \A k \in DOMAIN old :
          IF Touches(k, user) THEN new[k].last_calculated = old[k].last_calculated
          ELSE new[k] = old[k]
    /\ \A k \in DOMAIN new \ DOMAIN old :
          /\ Touches(k, user)
          /\ <<k[2], k[1]>> \notin DOMAIN old

\* ... and with full reset: a key that is gone touched user, and a row that
\* does not touch user is as it was
ResetFrame(old, new, user) ==
    /\ \A k \in DOMAIN old \ DOMAIN new : Touches(k, user)
    /\ \A k \in DOMAIN old : ~Touches(k, user) => (k \in DOMAIN new /\ new[k] = old[k])
    /\ \A k \in DOMAIN new \ DOMAIN old : Touches(k, user)

\* C14: recalculate_all_compatibilities(user, merge) deletes no row and
\* moves no row to the other (user1, user2) order; it changes score fields
\* of rows touching user only and inserts a row only for a pair that had no
\* row in either order; rows not touching user stay as they were. With full
\* reset rows are removed, and only rows touching user.
C14_RecalculationFrame ==
    \A p \in Procs :
        RanAlone(p) =>
            IF proc[p].reset
            THEN ResetFrame(proc[p].before[1], comp, proc[p].user)
            ELSE MergeFrame(proc[p].before[1], comp, proc[p].user)

\* a merge call has run alone for a user who had a row as user2, a pair
\* without a row and a table with a row of the two other users
C14_Witness ==
    \E p \in Procs :
        /\ RanAlone(p)
        /\ ~proc[p].reset
        /\ \E k \in DOMAIN proc[p].before[1] : ~Touches(k, proc[p].user)
        /\ \E k \in DOMAIN proc[p].before[1] : k[2] = proc[p].user
        /\ \E k \in DOMAIN comp \ DOMAIN proc[p].before[1] : Touches(k, proc[p].user)

\* the cache after cache.clear()
NoCache == <<>>

\* C15: at any point clearing the whole cache changes the result of no
\* calculate_compatibility_between_users call that follows: for every
\* ordered pair of users the call answers with the cache as it is what it
\* answers with an empty cache.
C15_CacheClearChangesNothing ==
    \A pr \in Pairs :
        CalcResult(cache, pr[1], pr[2], answers[pr[1]], answers[pr[2]], required)
            = CalcResult(NoCache, pr[1], pr[2], answers[pr[1]], answers[pr[2]], required)

\* the keys whose row was inserted, deleted or changed between two tables
ChangedKeys(old, new) ==
    {k \in DOMAIN old \cup DOMAIN new :
        k \notin DOMAIN old \/ k \notin DOMAIN new \/ old[k] # new[k]}

\* the step is a batch recalculation (called on its own or inline by an
\* answer submission) of a user of every row it changes
RecalculationWrote ==
    /\ last_op'.op \in {"recalculate_all", "submit"}
    /\ \A k \in ChangedKeys(comp, comp') : Touches(k, last_op'.user)

\* C16 as claimed: a row is created or modified only by the batch
\* recalculation of one of its two users; get_compatible_users,
\* compatibility_with and the compatible listing change no row.
C16_AsClaimed == [][comp' # comp => RecalculationWrote]_vars

\* C16: a row is created or modified by the batch recalculation of one of
\* its two users, by get_compatible_users(user), which only inserts rows
\* (user, other) for pairs without a row in either order, or by the
\* calculate_all_compatibilities and calculate_missing_compatibilities
\* commands; compatibility_with and the compatible listing change no row.
C16_WritersOfRows ==
    [][comp' # comp =>
          \/ RecalculationWrote
          \/ /\ last_op'.op = "get_compatible_users"
             /\ \A k \in ChangedKeys(comp, comp') :
                   /\ k[1] = last_op'.user
                   /\ k \notin DOMAIN comp
                   /\ <<k[2], k[1]>> \notin DOMAIN comp
          \/ last_op'.op \in {"calculate_all", "tick"}]_vars

\* get_compatible_users has just inserted a row for its user
C16_Witness ==
    /\ last_op.op = "get_compatible_users"
    /\ \E o \in Users \ {last_op.user} :
          /\ <<last_op.user, o>> \in DOMAIN comp
          /\ comp[<<last_op.user, o>>].last_calculated = now
          /\ now > 0

\* C17: after a Controls update every score computation (a call that finds
\* no cache entry for its pair) uses the adjust, exponent and open-to-all
\* values of the Controls row as it is when the call starts.
C17_ComputationUsesCurrentControls ==
    [][\A pr \in Pairs :
          (/\ ScoreRequest(pr[1], pr[2], FALSE, FALSE)
           /\ CacheKey(pr[1], pr[2]) \notin DOMAIN cache) =>
              last_op'.response
                  = <<ComputeResult(answers[pr[1]], answers[pr[2]], required[pr[1]],
                                    required[pr[2]], controls)>>]_vars

\* C18: calculate_compatibility_between_users with required_only and
\* exclude_required both true ends with the error and nothing else: no
\* result is returned whatever the cache holds for the pair, and the cache,
\* the held constants, the pair rows and the job rows are as before.
C18_BothFlagsRejected ==
    [][\A pr \in Pairs :
          ScoreRequest(pr[1], pr[2], TRUE, TRUE) =>
              /\ last_op'.raised
              /\ last_op'.response = <<>>
              /\ UNCHANGED <<cache, constants_cache, comp, job>>]_vars

\* a call has just been refused for a pair that has no cache entry while
\* pair rows and job rows exist
C18_Witness ==
    /\ last_op.op = "calculate"
    /\ last_op.raised
    /\ CacheKey(last_op.user, last_op.other) \notin DOMAIN cache
    /\ comp # <<>>
    /\ \E u \in Users : job[u] # <<>>

\* C19: should_enqueue_after_answer never returns force without enqueue and
\* never enqueue below MIN_MATCHABLE_ANSWERS; it returns (enqueue, force)
\* for an update by a match-ready user and for a new answer to an
\* onboarding-trigger question by a match-ready user, and enqueue without
\* force for a new answer to another question once the count is above the
\* threshold.
C19_EnqueueDecision ==
    last_op.op = "should_enqueue" =>
        LET r == last_op.response[1]
            match_ready == r.answered_count >= MIN_MATCHABLE_ANSWERS
        IN  /\ r.force_enqueue => r.should_enqueue
            /\ ~match_ready => ~r.should_enqueue
            /\ (~r.created /\ match_ready) => (r.should_enqueue /\ r.force_enqueue)
            /\ (r.created /\ r.is_onboarding_trigger /\ match_ready)
                   => (r.should_enqueue /\ r.force_enqueue)
            /\ (r.created /\ ~r.is_onboarding_trigger
                          /\ r.answered_count > MIN_MATCHABLE_ANSWERS)
                   => (r.should_enqueue /\ ~r.force_enqueue)

\* the decision has been taken for a new answer to a question that is no
\* onboarding trigger by a user just above the threshold
C19_Witness ==
    /\ last_op.op = "should_enqueue"
    /\ last_op.response[1].created
    /\ ~last_op.response[1].is_onboarding_trigger
    /\ last_op.response[1].answered_count = MIN_MATCHABLE_ANSWERS + 1
    /\ last_op.response[1].should_enqueue

\* C20: when neither user has a required question, every required output
\* of the computation equals its unrestricted counterpart (overall, the two
\* directions, their_required as im_compatible_with, the mutual counts) and
\* both completeness values and the completeness ratio are 1.0, whatever the
\* two answer sets, disjoint and empty ones included.
C20_NoRequiredMeansUnrestricted ==
    (last_op.op = "score" /\ last_op.response[1].req1 = {} /\ last_op.response[1].req2 = {}) =>
        LET d == last_op.response[1].result
        IN  /\ d.required_overall_compatibility = d.overall_compatibility
            /\ d.required_compatible_with_me = d.compatible_with_me
            /\ d.required_im_compatible_with = d.im_compatible_with
            /\ d.their_required_compatibility = d.im_compatible_with
            /\ d.required_mutual_questions_count = d.mutual_questions_count
            /\ d.user1_required_mutual_count = d.mutual_questions_count
            /\ d.user2_required_mutual_count = d.mutual_questions_count
            /\ d.user1_required_completeness = 1000
            /\ d.user2_required_completeness = 1000
            /\ d.required_completeness_ratio = 1000

\* the score has been computed for two users without required questions
\* whose answer sets share no question
C20_Witness ==
    /\ last_op.op = "score"
    /\ last_op.response[1].req1 = {}
    /\ last_op.response[1].req2 = {}
    /\ DOMAIN last_op.response[1].a1 # {}
    /\ DOMAIN last_op.response[1].a2 # {}
    /\ DOMAIN last_op.response[1].a1 \cap DOMAIN last_op.response[1].a2 = {}

\* the completeness of a user who answered `answered` against the other
\* user's required set, over the denominator `den`, in thousandths
CompletenessOver(answered, required_set, den) ==
    IF den > 0
    THEN RoundDiv(1000 * Min2(Cardinality(answered \cap required_set), den), den)
    ELSE 0

\* C21 as stated: with a required set non-empty, a user's completeness is
\* the number of the other user's required questions this user answered over
\* the number of the other user's required questions, answered by the other
\* user or not, clamped to [0, 1].
C21_AsClaimed ==
    (last_op.op = "score" /\ last_op.response[1].req1 \cup last_op.response[1].req2 # {}) =>
        LET c == last_op.response[1]
        IN  /\ c.req2 # {} => c.result.user1_required_completeness =
                    CompletenessOver(DOMAIN c.a1, c.req2, Cardinality(c.req2))
            /\ c.req1 # {} => c.result.user2_required_completeness =
                    CompletenessOver(DOMAIN c.a2, c.req1, Cardinality(c.req1))

\* C21: with a required set non-empty, a user's completeness is the number
\* of the other user's required questions this user answered over the number
\* of the other user's required questions that the other user has answered,
\* clamped to [0, 1], and 0 when the other user answered none of them.
C21_CompletenessOverAnsweredRequired ==
    (last_op.op = "score" /\ last_op.response[1].req1 \cup last_op.response[1].req2 # {}) =>
        LET c == last_op.response[1]
        IN  /\ c.result.user1_required_completeness =
                    CompletenessOver(DOMAIN c.a1, c.req2,
                                     Cardinality(c.req2 \cap DOMAIN c.a2))
            /\ c.result.user2_required_completeness =
                    CompletenessOver(DOMAIN c.a2, c.req1,
                                     Cardinality(c.req1 \cap DOMAIN c.a1))

\* the other user marked two questions required and answered one; this user
\* answered both, so the ratio 2/1 is clamped to 1.0
C21_Witness ==
    /\ last_op.op = "score"
    /\ last_op.response[1].req2 = {1, 2}
    /\ DOMAIN last_op.response[1].a2 = {1}
    /\ DOMAIN last_op.response[1].a1 = {1, 2}
    /\ last_op.response[1].result.user1_required_completeness = 1000

\* ------------------------------------------------------------------------
\* calculate_question_score applied to one question.

\* the constants a score of one question is computed under
QuestionConstants == ControlsValues \cup {[Controls EXCEPT !.ADJUST_VALUE = 4]}

\* lines 47-98 for one question; the function keeps nothing, so one call per
\* behaviour is followed
ScoreQuestion(my_them, my_importance, their_me, my_me, their_them, their_importance, my_open_to_all, their_open_to_all, constants) ==
    /\ last_op = NoOp
    /\ last_op' = Op("question_score", 0, 0, FALSE, FALSE, <<>>,
                     <<[my_them |-> my_them, my_importance |-> my_importance,
                        their_me |-> their_me, my_me |-> my_me,
                        their_them |-> their_them, their_importance |-> their_importance,
                        my_open_to_all |-> my_open_to_all,
                        their_open_to_all |-> their_open_to_all,
                        constants |-> constants,
                        result |-> calculate_question_score(my_them, my_importance,
                                      their_me, my_me, their_them, their_importance,
                                      my_open_to_all, their_open_to_all, constants)]>>)
    /\ UNCHANGED <<controls, constants_cache, answers, other_answers,
                   questions_answered_count, last_answer_update, required, is_banned,
                   job, comp, cache, now, proc>>

QuestionNext ==
    \E my_them \in {2, 6}, my_importance \in {1, 3, 5}, their_me \in {2, 4, 6} :
        \E my_me \in {4, 6}, their_them \in {5, 6}, their_importance \in {3, 5} :
            \E my_open_to_all \in BOOLEAN, their_open_to_all \in BOOLEAN :
                \E constants \in QuestionConstants :
                    ScoreQuestion(my_them, my_importance, their_me, my_me, their_them,
                                  their_importance, my_open_to_all, their_open_to_all,
                                  constants)

QuestionSpec == Init /\ [][QuestionNext]_vars

\* C22: for one question, whenever my looking-for is open to all (flag set
\* or value 6) or the other user's self value is 6, direction A scores
\* M_A = adjust * ota and MAX_A = adjust (in twentieths: 2 * adjust * tenths
\* of ota, and 20 * adjust), whatever my importance and the other user's
\* value; with adjust 5, ota 0.5, exponent 2, my want 6, my self 4, their
\* want 5 and their importance 5 the result is M_A = 2.5, MAX_A = 5,
\* M_B = 20, MAX_B = 25 (50, 100, 400 and 500 twentieths).
C22_OpenToAllDirectionA ==
    last_op.op = "question_score" =>
        LET q == last_op.response[1]
        IN  /\ (q.my_open_to_all \/ q.my_them = 6 \/ q.their_me = 6) =>
                  /\ q.result[1] = 2 * q.constants.ADJUST_VALUE * q.constants.OTA_TENTHS
                  /\ q.result[2] = 20 * q.constants.ADJUST_VALUE
            /\ (/\ q.constants = [ADJUST_VALUE |-> 5, EXPONENT |-> 2, OTA_TENTHS |-> 5]
                /\ q.my_them = 6 /\ q.my_me = 4 /\ q.their_them = 5
                /\ q.their_importance = 5 /\ ~q.their_open_to_all) =>
                  q.result = <<50, 100, 400, 500>>

\* the worked example with the flag unset, importance 5 and the other
\* user's self value 2: direction A is open by the value 6 alone
C22_Witness ==
    /\ last_op.op = "question_score"
    /\ last_op.response[1].constants = [ADJUST_VALUE |-> 5, EXPONENT |-> 2, OTA_TENTHS |-> 5]
    /\ last_op.response[1].my_them = 6
    /\ last_op.response[1].my_importance = 5
    /\ last_op.response[1].their_me = 2
    /\ last_op.response[1].my_me = 4
    /\ last_op.response[1].their_them = 5
    /\ last_op.response[1].their_importance = 5
    /\ ~last_op.response[1].my_open_to_all
    /\ ~last_op.response[1].their_open_to_all
    /\ last_op.response[1].result = <<50, 100, 400, 500>>

\* row r at key k = (slot1, slot2) is oriented to slot1: its score fields
\* are those of a computation for (slot1, slot2) from the current answers,
\* or those of a computation for (slot2, slot1) with the directional fields
\* swapped
OrientedToSlot1(r, k) ==
    \/ SameScores(r, FreshRow(k))
    \/ SameScores(r, ReverseRow(ComputeResult(answers[k[2]], answers[k[1]],
                                              required[k[2]], required[k[1]],
                                              get_constants), 0))

\* the operation just run is one of the writers that update existing rows
UpdatingWriter(op) ==
    \/ op.op = "recalculate_all" /\ ~op.force
    \/ op.op = "calculate_all" /\ op.force
    \/ op.op = "tick"

\* C23: every writer that updates an existing row
\* (recalculate_all_compatibilities in merge mode, calculate_all_compatibilities
\* --force, calculate_missing_compatibilities) leaves the row oriented to its
\* stored slot1 user, also when the computing user is stored as slot2: with
\* no cache entry in the way, every row the writer changed holds the
\* directional pair, the required pair and the completeness values of slot1.
C23_WritersKeepOrientation ==
    [][(UpdatingWriter(last_op') /\ cache = NoCache) =>
          \A k \in (DOMAIN comp) \cap (DOMAIN comp') :
              ~SameScores(comp'[k], comp[k]) => OrientedToSlot1(comp'[k], k)]_vars

\* C24: one row per unordered pair also under overlap: once
\* recalculate_all_compatibilities(A) and recalculate_all_compatibilities(B)
\* that ran at the same time have both finished, the store does not hold an
\* (A,B) row next to a (B,A) row.
C24_OneRowPerPairUnderOverlap ==
    \A a \in Users : \A b \in Users \ {a} :
        (/\ proc["p1"].pc = "done" /\ proc["p1"].user = a
         /\ proc["p2"].pc = "done" /\ proc["p2"].user = b) =>
            ~(<<a, b>> \in DOMAIN comp /\ <<b, a>> \in DOMAIN comp)

\* C25: a re-enqueue is never lost: the inline recalculation of U that had
\* read the answers before a later answer write of U, whose enqueue call
\* has since reset the job to Pending, does not mark the job Completed
\* afterwards.
C25_OvertakenNeverCompletes ==
    [][\A p \in Procs :
          (proc[p].pc = "save" /\ proc[p].later_write = "enqueued") =>
              ~(/\ proc'[p].pc = "done"
                /\ GetJob(job', proc[p].user).status = STATUS_COMPLETED)]_vars

\* the six directional values of result d are those of result f
SameDirection(d, f) ==
    /\ d.compatible_with_me = f.compatible_with_me
    /\ d.im_compatible_with = f.im_compatible_with
    /\ d.required_compatible_with_me = f.required_compatible_with_me
    /\ d.required_im_compatible_with = f.required_im_compatible_with
    /\ d.user1_required_completeness = f.user1_required_completeness
    /\ d.user2_required_completeness = f.user2_required_completeness

\* C26: calculate_compatibility_between_users(u1, u2) answers with
\* directional fields oriented to u1, computed or served from the cache,
\* after any earlier calls on the pair in either argument order: its
\* directional values are those of a computation for (u1, u2), or those of a
\* computation for (u2, u1) read the other way round.
C26_ResultOrientedToFirstArgument ==
    (last_op.op = "calculate" /\ ~last_op.raised) =>
        LET u1 == last_op.user
            u2 == last_op.other
        IN  \/ SameDirection(last_op.response[1],
                             ComputeResult(answers[u1], answers[u2], required[u1],
                                           required[u2], get_constants))
            \/ Mirrored(last_op.response[1],
                        ComputeResult(answers[u2], answers[u1], required[u2],
                                      required[u1], get_constants))

\* ------------------------------------------------------------------------
\* Answer writes and scheduled runs of calculate_missing_compatibilities
\* with the score cache: user 1 may be below the match threshold, where an
\* answer write starts no recalculation.

StaleNext ==
    \/ \E u \in Actors, q \in Questions :
          \E v \in AnswerValues \cup {InitAnswer(u)} : SubmitAnswer(u, q, v, FALSE, "no")
    \/ Tick
    \/ \E k \in Pairs : CacheExpire(k)

StaleSpec == QueueInit /\ [][StaleNext]_vars

\* row r of the pair k holds the scores of a computation from the current
\* answers of both users, in either orientation
ComputedFromCurrentAnswers(r, k) ==
    LET d1 == ComputeResult(answers[k[1]], answers[k[2]], required[k[1]],
                            required[k[2]], get_constants)
        d2 == ComputeResult(answers[k[2]], answers[k[1]], required[k[2]],
                            required[k[1]], get_constants)
    IN  \E f \in {DirectRow(d1, 0), ReverseRow(d1, 0), DirectRow(d2, 0), ReverseRow(d2, 0)} :
           SameScores(r, f)

\* C27: when calculate_missing_compatibilities recalculates a pair it judged
\* stale, the values it stores are those of a fresh computation from both
\* users' current answers, also while a cache entry of the pair written
\* before the answer change is still alive: no row is stamped as freshly
\* calculated while it holds scores of the old answers.
C27_StaleRecalculationIsFresh ==
    [][last_op'.op = "tick" =>
          \A k \in (DOMAIN comp) \cap (DOMAIN comp') :
              (/\ Stale(comp[k], k[1], k[2])
               /\ comp'[k].last_calculated # comp[k].last_calculated) =>
                  ComputedFromCurrentAnswers(comp'[k], k)]_vars

\* C28: every answer submission that stores a brand-new answer and leaves
\* the user match-ready (answered count >= 10) ends with the user having a
\* Pending job or having had the inline recalculation run in the request,
\* also when the answer brings the count to exactly 10 on a question that
\* is no onboarding trigger while rows touching the user exist.
C28_NewAnswerOfMatchReadyUserIsFollowedUp ==
    [][\A u \in Actors :
          (/\ last_op'.op = "submit" /\ last_op'.user = u
           /\ questions_answered_count'[u] = questions_answered_count[u] + 1
           /\ questions_answered_count'[u] >= MIN_MATCHABLE_ANSWERS) =>
              \/ last_op'.force
              \/ HasJob(job', u) /\ GetJob(job', u).status = STATUS_PENDING]_vars

\* C29: when the inline recalculation of an answer submission raises, the
\* exception is swallowed: the answer write stands (the user's latest answer
\* update is the request's instant) and the user's job is left Pending, not
\* Completed and not Failed, with attempts and last_attempt_at as they were
\* before the request (0 and null where the request created the row).
C29_RaisingInlinePathLeavesPending ==
    [][(last_op'.op = "submit" /\ last_op'.raised) =>
          LET u == last_op'.user
          IN  /\ last_answer_update'[u] = now'
              /\ HasJob(job', u)
              /\ GetJob(job', u).status = STATUS_PENDING
              /\ GetJob(job', u).attempts
                    = IF HasJob(job, u) THEN GetJob(job, u).attempts ELSE 0
              /\ GetJob(job', u).last_attempt_at
                    = IF HasJob(job, u) THEN GetJob(job, u).last_attempt_at
                      ELSE NullTime]_vars

\* a submission whose inline recalculation raised has left Pending a job
\* that an earlier attempt had taken out of Pending
C29_Witness ==
    /\ last_op.op = "submit"
    /\ last_op.raised
    /\ HasJob(job, last_op.user)
    /\ GetJob(job, last_op.user).status = STATUS_PENDING
    /\ GetJob(job, last_op.user).attempts = 1
    /\ GetJob(job, last_op.user).last_attempt_at # NullTime

\* C30: an unforced enqueue_user_for_recalculation that reaches a job which
\* is already Pending (the call is not the early return of line 37) leaves status, error_message, attempts and last_attempt_at
\* unchanged (only updated_at is touched) and returns created = false,
\* updated = false, skipped = false; no enqueue call, forced or not, ever
\* changes attempts or last_attempt_at.
C30_EnqueueFrame ==
    [][\A u \in Actors : \A force \in BOOLEAN :
          EnqueueCall(u, force) =>
              /\ (HasJob(job, u) /\ HasJob(job', u)) =>
                    /\ GetJob(job', u).attempts = GetJob(job, u).attempts
                    /\ GetJob(job', u).last_attempt_at = GetJob(job, u).last_attempt_at
              /\ (/\ ~force
                  /\ HasJob(job, u)
                  /\ GetJob(job, u).status = STATUS_PENDING
                  /\ ~last_op'.results[1].skipped) =>
                    /\ job'[u] = <<[GetJob(job, u) EXCEPT !.updated_at = now']>>
                    /\ last_op'.results[1]
                          = EnqueueResult(FALSE, FALSE, FALSE, "none")]_vars

\* an unforced enqueue has just run on a Pending job that an earlier attempt
\* had counted
C30_Witness ==
    /\ last_op.op = "enqueue"
    /\ ~last_op.force
    /\ last_op.results = <<EnqueueResult(FALSE, FALSE, FALSE, "none")>>
    /\ GetJob(job, last_op.user).status = STATUS_PENDING
    /\ GetJob(job, last_op.user).attempts = 1
    /\ GetJob(job, last_op.user).updated_at = now

====
